---- MODULE Spec2Model ----
(***************************************************************************)
(* Ui::Text::String (ui/text/text.cpp): natural size, width-constrained    *)
(* line breaking and selection adjustment, as a state machine over one     *)
(* String object.                                                          *)
(*                                                                         *)
(* QFixed values are integers counted in 1/64 of a pixel (QFixed(n) for an *)
(* int n is n * FixedOne).  Pixel values (paddings, heights, the widths    *)
(* callers pass, _maxWidth, _minHeight) are plain integers.                *)
(***************************************************************************)
EXTENDS Integers, Sequences, FiniteSets, TLC

VARIABLES
    _text,                      \* QString _text, a sequence of characters
    _blocks,                    \* TextBlocks _blocks
    _minResizeWidth,            \* int32 _minResizeWidth (pixels)
    _startParagraphIndex,       \* index of the paragraph the text starts in
    _maxWidth,                  \* natural width (pixels)
    _minHeight,                 \* natural height (pixels)
    _endsWithParagraphDetails,  \* the last paragraph has details
    _skipBlockAddedNewline,     \* updateSkipBlock put a Newline before the Skip
    _extended,                  \* the links and the spoiler data of the
                                \* extended data, or NoExtended
    self,                       \* the address of the String
    parsed,                     \* what the parser left in _text and _blocks
    call                        \* the last query made of the String, with
                                \* its arguments, its result and the lines
                                \* the breaker emitted for it

vars == << _text, _blocks, _minResizeWidth, _startParagraphIndex,
           _maxWidth, _minHeight, _endsWithParagraphDetails,
           _skipBlockAddedNewline, _extended, self, parsed, call >>

-----------------------------------------------------------------------------
(* Helpers. *)

Max(a, b) == IF a >= b THEN a ELSE b
Min(a, b) == IF a <= b THEN a ELSE b

-----------------------------------------------------------------------------
(* QFixed: 26.6 fixed point.                                               *)

FixedOne == 64

\* QFixed(int)
QFixed(n) == n * FixedOne

\* QFixed::ceil().toInt(): the least integer not below the value.
CeilToInt(f) == (f + (FixedOne - 1)) \div FixedOne

-----------------------------------------------------------------------------
(* Style (style::TextStyle _st) and the paragraph list of the extended     *)
(* data.  Paragraph 1 is a pre block, paragraph 2 a blockquote; index 0 is *)
(* "no details".                                                           *)

_st ==
    [ font       |-> [height |-> 8],
      lineHeight |-> 0,
      pre        |-> [padding |-> [left |-> 1, top |-> 1, right |-> 1, bottom |-> 1],
                      header |-> 2, verticalSkip |-> 1],
      blockquote |-> [padding |-> [left |-> 2, top |-> 0, right |-> 0, bottom |-> 0],
                      header |-> 0, verticalSkip |-> 1] ]

paragraphs == << [pre |-> TRUE], [pre |-> FALSE] >>

NoParagraph == [none |-> TRUE]

\* String::paragraphByIndex
paragraphByIndex(index) ==
    IF index = 0 THEN NoParagraph ELSE paragraphs[index]

\* The padding of a framed paragraph: the header and the vertical skip are
\* part of its top, the vertical skip of its bottom.
QuotePadding(q) ==
    [ left   |-> q.padding.left,
      top    |-> q.padding.top + q.header + q.verticalSkip,
      right  |-> q.padding.right,
      bottom |-> q.padding.bottom + q.verticalSkip ]

\* String::paragraphPadding
paragraphPadding(info) ==
    IF info = NoParagraph
    THEN [left |-> 0, top |-> 0, right |-> 0, bottom |-> 0]
    ELSE QuotePadding(IF info.pre THEN _st.pre ELSE _st.blockquote)

-----------------------------------------------------------------------------
(* Blocks.  A block is a record                                            *)
(*   [type, words, width, height, pindex]                                  *)
(* type   : "Text", "Newline", "Emoji" or "Skip"                           *)
(* words  : for a Text block, its words, each [width, rbearing, rpadding]  *)
(*          in QFixed; a negative width marks a forced sub-chunk that does *)
(*          not end its word, measured by its absolute value               *)
(* width  : for an Emoji or Skip block, its width in QFixed                *)
(* height : for a Skip block, its height in pixels                         *)
(* pindex : for a Newline block, the index of the paragraph it starts      *)

Abs(x) == IF x < 0 THEN -x ELSE x

RECURSIVE WordsAdvance(_)
\* widths and trailing paddings of all the words of a block
WordsAdvance(ws) ==
    IF ws = <<>> THEN 0
    ELSE Abs(Head(ws).width) + Head(ws).rpadding + WordsAdvance(Tail(ws))

\* AbstractBlock::f_rpadding
f_rpadding(b) ==
    IF b.type = "Text" /\ b.words # <<>> THEN b.words[Len(b.words)].rpadding ELSE 0

\* AbstractBlock::f_width: a Text block's width is that of its words and
\* the paddings between them, without the last word's trailing padding.
f_width(b) ==
    IF b.type = "Text" THEN WordsAdvance(b.words) - f_rpadding(b)
    ELSE IF b.type = "Newline" THEN 0
    ELSE b.width

\* AbstractBlock::f_rbearing: the last word's for a Text block, else 0.
f_rbearing(b) ==
    IF b.type = "Text" /\ b.words # <<>> THEN b.words[Len(b.words)].rbearing ELSE 0

\* CountBlockHeight(block, _st)
CountBlockHeight(b) ==
    IF b.type = "Skip" THEN b.height
    ELSE Max(_st.lineHeight, _st.font.height)

\* String::paragraphIndex(block); for block == nullptr see StartPadding.
paragraphIndex(b) == b.pindex

-----------------------------------------------------------------------------
(* String::recountNaturalSize.                                             *)

\* The deferred-bearing accumulation shared by the natural-size pass and
\* the breaker: width += last_rBearing + (last_rPadding + w - rbearing).
Accumulate(width, last_rBearing, last_rPadding, w, rbearing) ==
    width + last_rBearing + (last_rPadding + w - rbearing)

\* The state of the pass before the first block.
RecountStart(startIndex) ==
    LET ppadding == paragraphPadding(paragraphByIndex(startIndex)) IN
    [ pindex        |-> startIndex,
      ppadding      |-> ppadding,
      minHeight     |-> ppadding.top,
      lineHeight    |-> 0,
      maxWidth      |-> 0,
      width         |-> QFixed(ppadding.left + ppadding.right),
      last_rBearing |-> 0,
      last_rPadding |-> 0 ]

\* The Newline branch of the loop body.
RecountNewline(s, b) ==
    LET lineHeight == IF s.lineHeight = 0 THEN CountBlockHeight(b) ELSE s.lineHeight
        index      == paragraphIndex(b)
        changed    == s.pindex # index
        entered    == paragraphPadding(paragraphByIndex(index))
        ppadding   == IF changed THEN [entered EXCEPT !.top = 0] ELSE s.ppadding
        minHeight  == IF changed
                      THEN s.minHeight + s.ppadding.bottom + entered.top
                      ELSE s.minHeight
    IN  [ pindex        |-> index,
          ppadding      |-> ppadding,
          minHeight     |-> minHeight + lineHeight,
          lineHeight    |-> 0,
          maxWidth      |-> Max(s.maxWidth, s.width),
          width         |-> QFixed(ppadding.left + ppadding.right),
          last_rBearing |-> 0,
          last_rPadding |-> 0 ]

\* The loop body for any other block.
RecountBlock(s, b) ==
    [ s EXCEPT
        !.maxWidth      = Max(s.maxWidth, s.width),
        !.width         = Accumulate(s.width, s.last_rBearing, s.last_rPadding,
                                     f_width(b), f_rbearing(b)),
        !.lineHeight    = Max(s.lineHeight, CountBlockHeight(b)),
        !.last_rBearing = f_rbearing(b),
        !.last_rPadding = f_rpadding(b) ]

RECURSIVE RecountLoop(_, _, _)
RecountLoop(s, blocks, i) ==
    IF i > Len(blocks) THEN s
    ELSE RecountLoop(
            IF blocks[i].type = "Newline"
            THEN RecountNewline(s, blocks[i])
            ELSE RecountBlock(s, blocks[i]),
            blocks, i + 1)

\* What follows the loop: the last line, if it has any width.
RecountFinish(s, blocks) ==
    IF s.width > 0
    THEN LET lineHeight == IF s.lineHeight = 0
                           THEN CountBlockHeight(blocks[Len(blocks)])
                           ELSE s.lineHeight
         IN  [ s EXCEPT
                 !.minHeight = s.minHeight + s.ppadding.top + lineHeight
                               + s.ppadding.bottom,
                 !.maxWidth  = Max(s.maxWidth, s.width) ]
    ELSE s

\* String::recountNaturalSize: the values it leaves in _maxWidth,
\* _minHeight and _endsWithParagraphDetails.
recountNaturalSize(blocks, startIndex) ==
    LET s == RecountFinish(RecountLoop(RecountStart(startIndex), blocks, 1), blocks)
    IN  [ maxWidth  |-> CeilToInt(s.maxWidth),
          minHeight |-> s.minHeight,
          endsWithParagraphDetails |-> (s.pindex # 0) ]

-----------------------------------------------------------------------------
(* String::enumerateLines.                                                 *)
(*                                                                         *)
(* The loop state s carries the locals of the function (widthLeft,         *)
(* lineHeight, last_rBearing, last_rPadding, longWordLine, pindex,         *)
(* ppadding and, inside a Text block, f, f_wLeft, f_lineHeight) and what   *)
(* the callback received so far (lines).  For the properties of placement  *)
(* it also records which units lie on the line being filled (cur, and      *)
(* f_cur at the anchor f): a unit is << block index, word index >>, with   *)
(* word index 0 for a block placed as a whole that has no words; and how   *)
(* many times the word loop rolled back to its anchor (rolled).            *)

\* Remaining without the bearing carried from the previous unit: the
\* breaker's arithmetic no longer that of the natural-size pass.
Remaining_noBearing(widthLeft, last_rBearing, last_rPadding, w, rbearing) ==
    widthLeft - (last_rPadding + w - rbearing)

\* newWidthLeft = widthLeft - last_rBearing - (last_rPadding + w - rbearing)
Remaining(widthLeft, last_rBearing, last_rPadding, w, rbearing) ==
    widthLeft - last_rBearing - (last_rPadding + w - rbearing)

\* Fits that lets a unit overhang the line by up to a pixel.
Fits_slack(newWidthLeft) == newWidthLeft >= -FixedOne

\* if (newWidthLeft >= 0)
Fits(newWidthLeft) == newWidthLeft >= 0

\* The units of a block placed as a whole.
BlockUnits(bi, b) ==
    IF b.type = "Text" /\ b.words # <<>>
    THEN [k \in 1..Len(b.words) |-> << bi, k >>]
    ELSE << << bi, 0 >> >>

\* The line the callback receives: callback(width - widthLeft, height),
\* with the units on it, the block it was emitted at and why.
Line(s, width, height, cause, at) ==
    [ width  |-> width - s.widthLeft,
      height |-> height,
      units  |-> s.cur,
      cause  |-> cause,
      at     |-> at,
      pindex |-> s.pindex,
      pad    |-> QFixed(s.ppadding.left + s.ppadding.right) ]

\* Emit that reports a line only if something was placed on it.
Emit_skipsEmpty(s, width, height, cause, at) ==
    IF s.cur = <<>> THEN s
    ELSE [ s EXCEPT !.lines = Append(s.lines, Line(s, width, height, cause, at)) ]

\* callback(width - widthLeft, height), at block `at` for reason `cause`.
Emit(s, width, height, cause, at) ==
    [ s EXCEPT !.lines = Append(s.lines, Line(s, width, height, cause, at)) ]

EnumerateStart(width, startIndex) ==
    LET ppadding == paragraphPadding(paragraphByIndex(startIndex)) IN
    [ pindex        |-> startIndex,
      ppadding      |-> ppadding,
      widthLeft     |-> width - QFixed(ppadding.left) - QFixed(ppadding.right),
      lineHeight    |-> 0,
      last_rBearing |-> 0,
      last_rPadding |-> 0,
      longWordLine  |-> TRUE,
      f             |-> 0,
      f_wLeft       |-> 0,
      f_lineHeight  |-> 0,
      f_cur         |-> <<>>,
      cur           |-> <<>>,
      lines         |-> <<>>,
      rolled        |-> 0,
      done          |-> TRUE ]

\* The Newline branch.
EnumerateNewline(s, bi, b, width) ==
    LET lineHeight == (IF s.lineHeight = 0 THEN CountBlockHeight(b) ELSE s.lineHeight)
                      + s.ppadding.top
        index      == paragraphIndex(b)
        changed    == s.pindex # index
        height     == IF changed THEN lineHeight + s.ppadding.bottom ELSE lineHeight
        ppadding   == IF changed
                      THEN paragraphPadding(paragraphByIndex(index))
                      ELSE [s.ppadding EXCEPT !.top = 0]
        e          == Emit(s, width, height, "newline", bi)
    IN  [ e EXCEPT
            !.pindex        = index,
            !.ppadding      = ppadding,
            !.lineHeight    = 0,
            !.last_rBearing = 0,
            !.last_rPadding = 0,
            !.widthLeft     = width - QFixed(ppadding.left) - QFixed(ppadding.right),
            !.longWordLine  = TRUE,
            !.cur           = <<>> ]

\* The whole block fits on the line.
EnumerateFits(s, bi, b, newWidthLeft) ==
    [ s EXCEPT
        !.last_rBearing = f_rbearing(b),
        !.last_rPadding = f_rpadding(b),
        !.widthLeft     = newWidthLeft,
        !.lineHeight    = Max(s.lineHeight, CountBlockHeight(b)),
        !.longWordLine  = FALSE,
        !.cur           = s.cur \o BlockUnits(bi, b) ]

\* A Text block without words: spaces only, kept on the same line.
EnumerateSpaces(s, bi, b) ==
    [ s EXCEPT
        !.last_rPadding = s.last_rPadding + f_rpadding(b),
        !.lineHeight    = Max(s.lineHeight, CountBlockHeight(b)),
        !.longWordLine  = FALSE,
        !.cur           = s.cur \o BlockUnits(bi, b) ]

\* A block that is not text and does not fit: it starts the next line.
EnumerateBreak(s, bi, b, width) ==
    LET e == Emit(s, width, s.lineHeight + s.ppadding.top, "wrap", bi) IN
    [ e EXCEPT
        !.ppadding.top  = 0,
        !.lineHeight    = Max(0, CountBlockHeight(b)),
        !.last_rBearing = f_rbearing(b),
        !.last_rPadding = f_rpadding(b),
        !.widthLeft     = width - QFixed(s.ppadding.left) - QFixed(s.ppadding.right)
                          - (f_width(b) - f_rbearing(b)),
        !.longWordLine  = TRUE,
        !.cur           = BlockUnits(bi, b) ]

\* The word at j fits: commit it, and move the anchor f past it if it ends
\* a word or the line holds nothing but one long word.
WordFits(s, c, j, newWidthLeft) ==
    LET wordEndsHere == c.words[j].width >= 0
        lineHeight   == Max(s.lineHeight, c.blockHeight)
        longWordLine == IF wordEndsHere THEN FALSE ELSE s.longWordLine
        cur          == Append(s.cur, << c.bi, j >>)
        moved        == wordEndsHere \/ longWordLine
    IN  [ s EXCEPT
            !.last_rBearing = c.words[j].rbearing,
            !.last_rPadding = c.words[j].rpadding,
            !.widthLeft     = newWidthLeft,
            !.lineHeight    = lineHeight,
            !.longWordLine  = longWordLine,
            !.cur           = cur,
            !.f_wLeft       = IF moved THEN newWidthLeft ELSE s.f_wLeft,
            !.f_lineHeight  = IF moved THEN lineHeight ELSE s.f_lineHeight,
            !.f_cur         = IF moved THEN cur ELSE s.f_cur,
            !.f             = IF moved THEN j + 1 ELSE s.f ]

\* if (f != j && !breakEverywhere)
RollsBack(s, c, j) == s.f # j /\ ~c.breakEverywhere

\* ResumeAt that leaves j where the line overflowed.
ResumeAt_noRewind(s, c, j) == j

\* j = f: after a rollback the loop resumes at the anchor.
ResumeAt(s, c, j) == s.f

\* The word at j does not fit: roll back to the anchor when there is one,
\* emit the line, and start the next line with the word now at j.  Yields
\* the new state and the index the loop continues from.
WordBreaks(s, c, j) ==
    LET wordEndsHere == c.words[j].width >= 0
        back         == RollsBack(s, c, j)
        jj           == IF back THEN ResumeAt(s, c, j) ELSE j
        r            == IF back
                        THEN [ s EXCEPT !.widthLeft  = s.f_wLeft,
                                        !.lineHeight = s.f_lineHeight,
                                        !.cur        = s.f_cur ]
                        ELSE s
        j_width      == Abs(c.words[jj].width)
        e            == Emit(r, c.width, r.lineHeight + r.ppadding.top, "wrap", c.bi)
        lineHeight   == Max(0, c.blockHeight)
        last_rBearing == c.words[jj].rbearing
        widthLeft    == c.width - QFixed(s.ppadding.left) - QFixed(s.ppadding.right)
                        - (j_width - last_rBearing)
        cur          == << << c.bi, jj >> >>
    IN  [ next  |-> jj + 1,
          state |-> [ e EXCEPT
            !.ppadding.top  = 0,
            !.lineHeight    = lineHeight,
            !.last_rBearing = last_rBearing,
            !.last_rPadding = c.words[jj].rpadding,
            !.widthLeft     = widthLeft,
            !.longWordLine  = ~wordEndsHere,
            !.cur           = cur,
            !.rolled        = IF back THEN s.rolled + 1 ELSE s.rolled,
            !.f             = jj + 1,
            !.f_wLeft       = widthLeft,
            !.f_lineHeight  = lineHeight,
            !.f_cur         = cur ] ]

\* for (auto j = t->_words.cbegin(), e = t->_words.cend(), f = j; j != e; ++j)
\* `steps` bounds the iterations examined; done = FALSE reports that the
\* loop was still running when they were used up.
RECURSIVE WordLoop(_, _, _, _)
WordLoop(s, c, j, steps) ==
    IF j > Len(c.words) THEN s
    ELSE IF steps = 0 THEN [s EXCEPT !.done = FALSE]
    ELSE LET j_width      == Abs(c.words[j].width)
             newWidthLeft == Remaining(s.widthLeft, s.last_rBearing, s.last_rPadding,
                                       j_width, c.words[j].rbearing)
         IN  IF Fits(newWidthLeft)
             THEN WordLoop(WordFits(s, c, j, newWidthLeft), c, j + 1, steps - 1)
             ELSE LET br == WordBreaks(s, c, j)
                  IN  WordLoop(br.state, c, br.next, steps - 1)

\* The iterations a block of n words can need: every word is examined at
\* most once per line start, and every break starts a line one word later.
LoopSteps(n) == (n + 1) * (n + 1)

\* One iteration of the loop over the blocks.
EnumerateBlock(s, bi, b, width, breakEverywhere) ==
    IF b.type = "Newline" THEN EnumerateNewline(s, bi, b, width)
    ELSE LET newWidthLeft == Remaining(s.widthLeft, s.last_rBearing, s.last_rPadding,
                                       f_width(b), f_rbearing(b))
         IN  IF Fits(newWidthLeft) THEN EnumerateFits(s, bi, b, newWidthLeft)
             ELSE IF b.type = "Text"
             THEN IF b.words = <<>> THEN EnumerateSpaces(s, bi, b)
                  ELSE WordLoop(
                         [ s EXCEPT !.f = 1, !.f_wLeft = s.widthLeft,
                                    !.f_lineHeight = s.lineHeight, !.f_cur = s.cur ],
                         [ bi |-> bi, words |-> b.words, width |-> width,
                           blockHeight |-> CountBlockHeight(b),
                           breakEverywhere |-> breakEverywhere ],
                         1, LoopSteps(Len(b.words)))
             ELSE EnumerateBreak(s, bi, b, width)

RECURSIVE EnumerateLoop(_, _, _, _, _)
EnumerateLoop(s, blocks, bi, width, breakEverywhere) ==
    IF bi > Len(blocks) THEN s
    ELSE EnumerateLoop(EnumerateBlock(s, bi, blocks[bi], width, breakEverywhere),
                       blocks, bi + 1, width, breakEverywhere)

\* if (widthLeft < width) callback(...): the last line.
EnumerateFinish(s, width) ==
    IF s.widthLeft < width
    THEN [ Emit(s, width, s.lineHeight + s.ppadding.top + s.ppadding.bottom,
                "final", 0)
           EXCEPT !.cur = <<>> ]
    ELSE s

\* String::enumerateLines(w, breakEverywhere, callback) on the given blocks:
\* lines is the sequence of calls of the callback, pending the units placed
\* on a last line that was never reported, done whether every loop ended.
enumerateLines(blocks, startIndex, minResizeWidth, w, breakEverywhere) ==
    LET width == QFixed(Max(w, minResizeWidth))
        s     == EnumerateFinish(
                    EnumerateLoop(EnumerateStart(width, startIndex), blocks, 1,
                                  width, breakEverywhere),
                    width)
    IN  [ lines |-> s.lines, pending |-> s.cur, done |-> s.done,
          rolled |-> s.rolled, width |-> width ]

-----------------------------------------------------------------------------
(* The queries.  Each yields the record stored in `call`:                  *)
(*   ret   the value returned                                              *)
(*   ran   whether enumerateLines was invoked                              *)
(*   lines, pending, done   what enumerateLines did, if it ran             *)

NotRun == [lines |-> <<>>, pending |-> <<>>, done |-> TRUE, rolled |-> 0, width |-> 0]

Result(op, w, breakEverywhere, ret, ran, e) ==
    [ op |-> op, w |-> w, breakEverywhere |-> breakEverywhere, ret |-> ret,
      ran |-> ran, lines |-> e.lines, pending |-> e.pending, done |-> e.done,
      rolled |-> e.rolled ]

RECURSIVE MaxLineWidth(_)
\* the lambda of countWidth: the widest line, starting from 0
MaxLineWidth(lines) ==
    IF lines = <<>> THEN 0
    ELSE Max(Head(lines).width, MaxLineWidth(Tail(lines)))

RECURSIVE SumLineHeights(_)
\* the lambda of countHeight: result += lineHeight
SumLineHeights(lines) ==
    IF lines = <<>> THEN 0
    ELSE Head(lines).height + SumLineHeights(Tail(lines))

\* ShortCircuit with a strict comparison: the natural width itself is
\* handed to the breaker.
ShortCircuit_strict(w, maxWidth) == QFixed(w) > QFixed(maxWidth)

\* if (QFixed(width) >= _maxWidth) return the cached natural size
ShortCircuit(w, maxWidth) == QFixed(w) >= QFixed(maxWidth)

\* String::countWidth
countWidth(w, breakEverywhere) ==
    IF ShortCircuit(w, _maxWidth)
    THEN Result("countWidth", w, breakEverywhere, _maxWidth, FALSE, NotRun)
    ELSE LET e == enumerateLines(_blocks, _startParagraphIndex, _minResizeWidth,
                                 w, breakEverywhere)
         IN  Result("countWidth", w, breakEverywhere,
                    CeilToInt(MaxLineWidth(e.lines)), TRUE, e)

\* String::countHeight
countHeight(w, breakEverywhere) ==
    IF ShortCircuit(w, _maxWidth)
    THEN Result("countHeight", w, breakEverywhere, _minHeight, FALSE, NotRun)
    ELSE LET e == enumerateLines(_blocks, _startParagraphIndex, _minResizeWidth,
                                 w, breakEverywhere)
         IN  Result("countHeight", w, breakEverywhere,
                    SumLineHeights(e.lines), TRUE, e)

\* String::countLineWidths(width, options)
countLineWidths(w, breakEverywhere) ==
    LET e == enumerateLines(_blocks, _startParagraphIndex, _minResizeWidth,
                            w, breakEverywhere)
    IN  Result("countLineWidths", w, breakEverywhere,
               [k \in 1..Len(e.lines) |-> CeilToInt(e.lines[k].width)], TRUE, e)

-----------------------------------------------------------------------------
(* The contents a String is constructed with.  The parser and the font     *)
(* metrics are outside this file: what reaches the String is a block list  *)
(* with measured words.  Two families are covered:                         *)
(*   paragraph contents: up to MaxBlocks blocks, each a one-word Text      *)
(*     block, an Emoji or a Newline into paragraph 0 or 1;                 *)
(*   word contents: one Text block of up to MaxWords words and forced      *)
(*     sub-chunks, after up to MaxLead other blocks, in paragraph 0.      *)
(* Text starts and ends with something to show (the parser trims the       *)
(* source), every word has a positive measure, and the last word of a      *)
(* block ends a word.                                                      *)

MaxBlocks == 4
MaxLead   == 2
MaxWords  == 3
MaxWidth  == 5

\* a narrow word followed by a space
WordA == [width |-> 32, rbearing |-> 0, rpadding |-> 32]
\* a word whose last glyph overhangs, with nothing after it
WordB == [width |-> 96, rbearing |-> -48, rpadding |-> 0]
\* a forced sub-chunk of a long word
ChunkC == [width |-> -64, rbearing |-> 0, rpadding |-> 0]

TextBlock(words) ==
    [type |-> "Text", words |-> words, width |-> 0, height |-> 0, pindex |-> 0]
EmojiBlock ==
    [type |-> "Emoji", words |-> <<>>, width |-> 64, height |-> 0, pindex |-> 0]
NewlineBlock(pindex) ==
    [type |-> "Newline", words |-> <<>>, width |-> 0, height |-> 0, pindex |-> pindex]

SeqsUpTo(S, n) == UNION { [1..k -> S] : k \in 1..n }

ParagraphBlocks ==
    { TextBlock(<<WordA>>), TextBlock(<<WordB>>), EmojiBlock,
      NewlineBlock(0), NewlineBlock(1) }

ParagraphContents ==
    { c \in SeqsUpTo(ParagraphBlocks, MaxBlocks) :
        c[1].type # "Newline" /\ c[Len(c)].type # "Newline" }

WordSeqs ==
    { ws \in SeqsUpTo({WordA, WordB, ChunkC}, MaxWords) : ws[Len(ws)].width > 0 }

\* what may precede the Text block on its line
LeadBlocks == { EmojiBlock, TextBlock(<<WordA>>), TextBlock(<<WordB>>) }

WordContents ==
    { << TextBlock(ws) >> : ws \in WordSeqs }
    \cup { lead \o << TextBlock(ws) >> :
             lead \in SeqsUpTo(LeadBlocks, MaxLead), ws \in WordSeqs }

RECURSIVE WordsText(_)
\* the characters of measured words: a letter each, and a space after a
\* word that has trailing padding
WordsText(ws) ==
    IF ws = <<>> THEN <<>>
    ELSE (IF Head(ws).rpadding > 0 THEN << "a", " " >> ELSE << "a" >>)
         \o WordsText(Tail(ws))

RECURSIVE TextOf(_)
\* the text the blocks were parsed from
TextOf(blocks) ==
    IF blocks = <<>> THEN <<>>
    ELSE (IF Head(blocks).type = "Newline" THEN << "\n" >>
          ELSE IF Head(blocks).type = "Text" THEN WordsText(Head(blocks).words)
          ELSE IF Head(blocks).type = "Skip" THEN << "_" >>
          ELSE << "a" >>)
         \o TextOf(Tail(blocks))

Widths == (-1)..MaxWidth

NoCall == Result("none", 0, FALSE, 0, FALSE, NotRun)

\* _extended == nullptr
NoExtended == [none |-> TRUE]

PointerWidth == 8
StringSize == 8
MaxStrings == 3

\* quintptr arithmetic
Pointer(n) == n % (2 ^ PointerWidth)

\* where Strings may live: the top of the address space
Addresses == { Pointer(0 - StringSize * i) : i \in 1..MaxStrings }

-----------------------------------------------------------------------------
(* The state machine.                                                      *)

\* String::String(st, text, options, minResizeWidth): setText, that is
\* clear(), the parser filling _blocks, and recountNaturalSize(true).
Parsed(text, blocks, startIndex, minResizeWidth) ==
    LET n == recountNaturalSize(blocks, startIndex) IN
    /\ _text = text
    /\ _blocks = blocks
    /\ _minResizeWidth = minResizeWidth
    /\ _startParagraphIndex = startIndex
    /\ _maxWidth = n.maxWidth
    /\ _minHeight = n.minHeight
    /\ _endsWithParagraphDetails = n.endsWithParagraphDetails
    /\ _skipBlockAddedNewline = FALSE
    /\ parsed = [text |-> text, blocks |-> blocks]
    /\ call = NoCall

Constructed(text, blocks, startIndex, minResizeWidth) ==
    /\ Parsed(text, blocks, startIndex, minResizeWidth)
    /\ _extended = NoExtended
    /\ self = Pointer(0 - StringSize)

Init ==
    \/ \E blocks \in ParagraphContents, startIndex \in {0, 1},
          minResizeWidth \in {0, 3} :
            Constructed(TextOf(blocks), blocks, startIndex, minResizeWidth)
    \/ \E blocks \in WordContents, minResizeWidth \in {0, 3} :
            Constructed(TextOf(blocks), blocks, 0, minResizeWidth)

\* The queries are const methods: a behaviour is one String and one query
\* of it, since a further query would start from the same String.
Idle == call.op = "none"

StringUnchanged ==
    UNCHANGED << _text, _blocks, _minResizeWidth, _startParagraphIndex,
                 _maxWidth, _minHeight, _endsWithParagraphDetails,
                 _skipBlockAddedNewline, _extended, self, parsed >>

CountWidth ==
    \E w \in Widths, breakEverywhere \in BOOLEAN :
        /\ Idle
        /\ call' = countWidth(w, breakEverywhere)
        /\ StringUnchanged

CountHeight ==
    \E w \in Widths, breakEverywhere \in BOOLEAN :
        /\ Idle
        /\ call' = countHeight(w, breakEverywhere)
        /\ StringUnchanged

CountLineWidths ==
    \E w \in Widths, breakEverywhere \in BOOLEAN :
        /\ Idle
        /\ call' = countLineWidths(w, breakEverywhere)
        /\ StringUnchanged

Next == CountWidth \/ CountHeight \/ CountLineWidths

Spec == Init /\ [][Next]_vars

-----------------------------------------------------------------------------
(* String::adjustSelection.                                                *)
(*                                                                         *)
(* _text is a sequence of characters, _text.at(i) its element i + 1.  The  *)
(* characters modelled stand for the classes the predicates tell apart: a  *)
(* letter, a space, a full stop and a line feed.  A selection is a record  *)
(* [from, to] of uint16.  For selection a block carries, besides its       *)
(* measures, its position in _text and its flags ("", "Code" or "Pre").    *)

LineFeed == "\n"

Chars == {"a", " ", ".", LineFeed}

\* IsParagraphSeparator(QChar)
IsParagraphSeparator(ch) == ch = LineFeed

\* IsWordSeparator(QChar), on the characters modelled
IsWordSeparator(ch) == ch \in {" ", LineFeed, "."}

\* IsSpace(QChar), on the characters modelled
IsSpace(ch) == ch \in {" ", LineFeed}

ParagraphSeparators == { c \in Chars : IsParagraphSeparator(c) }
WordSeparators == { c \in Chars : IsWordSeparator(c) }

\* IsMono(flags)
IsMono(flags) == flags \in {"Code", "Pre"}

\* _text.at(i)
text_at(i) == _text[i + 1]

RECURSIVE EntitiesFrom(_, _, _, _)
\* toTextWithEntities().entities, as far as the flags Code and Pre go:
\* flagsChangeCallback starts an entity where the flag appears and inserts
\* it where the flag disappears, the end of the text included.  i is the
\* block reached, flags and start the tracker of the entity being open.
EntitiesFrom(blocks, i, flags, start) ==
    LET position   == IF i > Len(blocks) THEN Len(_text) ELSE blocks[i].position
        blockFlags == IF i > Len(blocks) THEN "" ELSE blocks[i].flags
        closed     == IF blockFlags # flags /\ IsMono(flags)
                      THEN << [type |-> flags, offset |-> start,
                               length |-> position - start] >>
                      ELSE <<>>
    IN  IF i > Len(blocks) THEN closed
        ELSE closed \o EntitiesFrom(blocks, i + 1, blockFlags,
                                    IF blockFlags # flags THEN position ELSE start)

\* toTextWithEntities().entities
toTextWithEntities == IF _blocks = <<>> THEN <<>> ELSE EntitiesFrom(_blocks, 1, "", 0)

RECURSIVE TrimSpaces(_)
\* while (to > 0 && IsSpace(_text.at(to - 1))) --to;
TrimSpaces(to) == IF to > 0 /\ IsSpace(text_at(to - 1)) THEN TrimSpaces(to - 1) ELSE to

\* "Full selection of monospace entity": the first block not before `from`
\* decides; if it is monospace and an entity covers the range, the range
\* becomes the entity without its trailing spaces, and is returned if it is
\* not inverted.
MonoSnap(from, to) ==
    LET ahead    == { i \in 1..Len(_blocks) : _blocks[i].position >= from }
        first    == CHOOSE i \in ahead : \A k \in ahead : i <= k
        entities == toTextWithEntities
        covering == { n \in 1..Len(entities) :
                        /\ entities[n].type \in {"Pre", "Code"}
                        /\ from >= entities[n].offset
                        /\ entities[n].offset + entities[n].length >= to }
        eIt      == CHOOSE n \in covering : \A k \in covering : n <= k
    IN  IF ahead = {} \/ ~IsMono(_blocks[first].flags) \/ covering = {}
        THEN [returns |-> FALSE, from |-> from, to |-> to]
        ELSE LET newTo == TrimSpaces(entities[eIt].offset + entities[eIt].length)
             IN  [ returns |-> newTo >= entities[eIt].offset,
                   from    |-> entities[eIt].offset,
                   to      |-> newTo ]

RECURSIVE BackToSeparator(_, _)
\* while (from > 0 && !separator(_text.at(from - 1))) --from;
BackToSeparator(seps, from) ==
    IF from > 0 /\ text_at(from - 1) \notin seps THEN BackToSeparator(seps, from - 1)
    ELSE from

RECURSIVE OnToSeparator(_, _)
\* while (to < _text.size() && !separator(_text.at(to))) ++to;
OnToSeparator(seps, to) ==
    IF to < Len(_text) /\ text_at(to) \notin seps THEN OnToSeparator(seps, to + 1)
    ELSE to

\* if (!separator(_text.at(from))) { ... }
AdjustFrom(seps, from) ==
    IF text_at(from) \notin seps THEN BackToSeparator(seps, from) ELSE from

\* AdjustTo that leaves `to` on a separator it stands on.
AdjustTo_staysOnSeparator(seps, to) ==
    IF to < Len(_text)
    THEN IF text_at(to) \in seps THEN to ELSE OnToSeparator(seps, to)
    ELSE to

\* if (to < _text.size()) { if (separator(_text.at(to))) ++to; else ... }
AdjustTo(seps, to) ==
    IF to < Len(_text)
    THEN IF text_at(to) \in seps THEN to + 1 ELSE OnToSeparator(seps, to)
    ELSE to

\* Adjusts with a strict comparison: the empty range is left alone.
Adjusts_strict(from, to) == from < Len(_text) /\ from < to

\* if (from < _text.size() && from <= to)
Adjusts(from, to) == from < Len(_text) /\ from <= to

\* String::adjustSelection(selection, selectType)
adjustSelection(selection, selectType) ==
    IF ~Adjusts(selection.from, selection.to) THEN selection
    ELSE LET from == selection.from
             to   == Min(selection.to, Len(_text))
         IN  IF selectType = "Paragraphs"
             THEN LET m == MonoSnap(from, to) IN
                  IF m.returns THEN [from |-> m.from, to |-> m.to]
                  ELSE [ from |-> AdjustFrom(ParagraphSeparators, m.from),
                         to   |-> AdjustTo(ParagraphSeparators, m.to) ]
             ELSE IF selectType = "Words"
             THEN [ from |-> AdjustFrom(WordSeparators, from),
                    to   |-> AdjustTo(WordSeparators, to) ]
             ELSE [from |-> from, to |-> to]

-----------------------------------------------------------------------------
(* The state machine of selection: a String constructed from a text of up  *)
(* to MaxLen characters in one or two blocks, a selection adjusted, and    *)
(* the adjusted selection adjusted once more in the same mode.             *)

MaxLen == 3

Texts == { <<>> } \cup SeqsUpTo(Chars, MaxLen)

Flags == {"", "Code", "Pre"}

SelectBlock(position, flags) ==
    [ type |-> "Text", words |-> << WordA >>, width |-> 0, height |-> 0,
      pindex |-> 0, position |-> position, flags |-> flags ]

SelectBlocks(text) ==
    IF text = <<>> THEN { <<>> }
    ELSE { << SelectBlock(0, f) >> : f \in Flags }
         \cup { << SelectBlock(0, f1), SelectBlock(p, f2) >> :
                  f1 \in Flags, f2 \in Flags, p \in 1..(Len(text) - 1) }

\* TextSelection: uint16 from, to; the values tried reach past the text.
Selections == [from : 0..(MaxLen + 1), to : 0..(MaxLen + 1)]

SelectTypes == {"Letters", "Words", "Paragraphs"}

Adjusted(selection, selectType, times) ==
    [ op |-> "adjustSelection", selection |-> selection, selectType |-> selectType,
      ret |-> adjustSelection(selection, selectType), times |-> times ]

InitSelect ==
    \E text \in Texts : \E blocks \in SelectBlocks(text) :
        Constructed(text, blocks, 0, 0)

AdjustSelection ==
    \E selection \in Selections, selectType \in SelectTypes :
        /\ Idle
        /\ call' = Adjusted(selection, selectType, 1)
        /\ StringUnchanged

\* the caller hands the adjusted selection back
AdjustSelectionAgain ==
    /\ call.op = "adjustSelection"
    /\ call.times = 1
    /\ call' = Adjusted(call.ret, call.selectType, 2)
    /\ StringUnchanged

NextSelect == AdjustSelection \/ AdjustSelectionAgain

SpecSelect == InitSelect /\ [][NextSelect]_vars

-----------------------------------------------------------------------------
(* What the layout properties speak of.                                    *)

RECURSIVE Flat(_)
\* the units of a sequence of lines, in the order the lines were emitted
Flat(ls) == IF ls = <<>> THEN <<>> ELSE Head(ls).units \o Flat(Tail(ls))

RECURSIVE AllUnitsFrom(_, _)
\* the units of blocks[bi..], in input order; a Newline has none
AllUnitsFrom(blocks, bi) ==
    IF bi > Len(blocks) THEN <<>>
    ELSE (IF blocks[bi].type = "Newline" THEN <<>> ELSE BlockUnits(bi, blocks[bi]))
         \o AllUnitsFrom(blocks, bi + 1)

NumNewlines == Cardinality({ i \in 1..Len(_blocks) : _blocks[i].type = "Newline" })

\* the effective width of the last query, in QFixed
EffWidth == QFixed(Max(call.w, _minResizeWidth))

\* the measures of a unit
UnitWord(u) ==
    LET b == _blocks[u[1]] IN
    IF u[2] > 0
    THEN [ width    |-> Abs(b.words[u[2]].width),
           rbearing |-> b.words[u[2]].rbearing,
           rpadding |-> b.words[u[2]].rpadding ]
    ELSE [ width |-> f_width(b), rbearing |-> f_rbearing(b), rpadding |-> f_rpadding(b) ]

RECURSIVE UnitsWidth(_)
\* the width units take side by side when the first starts a line: every
\* width, the padding after every unit but the last, less the last bearing
UnitsWidth(units) ==
    IF units = <<>> THEN 0
    ELSE IF Len(units) = 1
    THEN UnitWord(units[1]).width - UnitWord(units[1]).rbearing
    ELSE UnitWord(units[1]).width + UnitWord(units[1]).rpadding
         + UnitsWidth(Tail(units))

RECURSIVE LineHeightsFrom(_, _, _)
\* the heights, without padding, of the unwrapped lines of blocks[i..]: h is
\* the height of the blocks seen on the current line
LineHeightsFrom(blocks, i, h) ==
    IF i > Len(blocks) THEN h
    ELSE IF blocks[i].type = "Newline"
    THEN (IF h = 0 THEN CountBlockHeight(blocks[i]) ELSE h)
         + LineHeightsFrom(blocks, i + 1, 0)
    ELSE LineHeightsFrom(blocks, i + 1, Max(h, CountBlockHeight(blocks[i])))

\* one top and one bottom padding of the paragraph with this index
ParagraphFrame(index) ==
    paragraphPadding(paragraphByIndex(index)).top
    + paragraphPadding(paragraphByIndex(index)).bottom

RECURSIVE FramesFrom(_, _, _)
\* the frames of the paragraphs entered by the Newlines of blocks[i..], the
\* text being in paragraph p before them
FramesFrom(blocks, i, p) ==
    IF i > Len(blocks) THEN 0
    ELSE IF blocks[i].type = "Newline" /\ blocks[i].pindex # p
    THEN ParagraphFrame(blocks[i].pindex) + FramesFrom(blocks, i + 1, blocks[i].pindex)
    ELSE FramesFrom(blocks, i + 1, p)

Words(bi) == _blocks[bi].words

\* the line that holds unit u
LineOf(u) ==
    CHOOSE k \in 1..Len(call.lines) :
        \E i \in 1..Len(call.lines[k].units) : call.lines[k].units[i] = u

EndsWord(bi, j) == Words(bi)[j].width >= 0

RECURSIVE WordStart(_, _)
\* the first unit of the word unit j of block bi belongs to
WordStart(bi, j) == IF j = 1 \/ EndsWord(bi, j - 1) THEN j ELSE WordStart(bi, j - 1)

RECURSIVE WordEnd(_, _)
\* the last unit of that word
WordEnd(bi, j) == IF EndsWord(bi, j) THEN j ELSE WordEnd(bi, j + 1)

\* the width units a..b of block bi take on a line of their own
OwnWidth(bi, a, b) == UnitsWidth([k \in 1..(b - a + 1) |-> << bi, a + k - 1 >>])

-----------------------------------------------------------------------------
(* Properties of the layout.                                               *)

\* C1: the heights of the lines enumerateLines emits at W = _maxWidth sum to
\* the _minHeight recountNaturalSize computed, whatever the paddings of the
\* start paragraph and of the later ones.
C1_HeightsSumToMinHeight ==
    (call.op = "countLineWidths" /\ call.w = _maxWidth)
        => SumLineHeights(call.lines) = _minHeight

\* C2: countHeight never grows with the width: for W1 <= W2 and the same
\* breakEverywhere, countHeight(W1) >= countHeight(W2), the cached answer of
\* W2 >= _maxWidth included.
C2_HeightMonotone ==
    call.op = "countHeight"
        => \A w2 \in Widths :
              w2 >= call.w => call.ret >= countHeight(w2, call.breakEverywhere).ret

\* C3: for W >= _maxWidth countWidth returns _maxWidth and countHeight
\* returns _minHeight, and enumerateLines is not invoked, whatever W and
\* breakEverywhere are.
C3_ShortCircuit ==
    (call.op \in {"countWidth", "countHeight"} /\ call.w >= _maxWidth)
        => /\ ~call.ran
           /\ call.op = "countWidth" => call.ret = _maxWidth
           /\ call.op = "countHeight" => call.ret = _minHeight

\* C3 happens: a height asked of a text of several lines at a width beyond
\* the natural one, breaking everywhere, answered without the breaker.
C3_Witness ==
    /\ call.op = "countHeight" /\ call.w > _maxWidth /\ call.breakEverywhere
    /\ ~call.ran /\ NumNewlines >= 1 /\ call.ret = _minHeight

\* C4: enumerateLines terminates for every content, width and
\* breakEverywhere, and the lines it emitted hold every unit that is not a
\* Newline exactly once, in input order; nothing is left on a line never
\* reported.
C4_EveryUnitOnOneLine ==
    call.ran => /\ call.done
                /\ call.pending = <<>>
                /\ Flat(call.lines) = AllUnitsFrom(_blocks, 1)

\* C4 happens: a run of the breaker that rolled back to its anchor and
\* wrapped more than once.
C4_Witness ==
    /\ call.ran /\ call.done /\ call.rolled >= 1 /\ ~call.breakEverywhere
    /\ Len(call.lines) >= 3
    /\ Flat(call.lines) = AllUnitsFrom(_blocks, 1)

\* C5, first half: with breakEverywhere = false, a wrap inside a Text block
\* whose line holds an earlier unit of the block that ended a word falls
\* right after a word end.
C5_BreakAtAnchor ==
    (call.ran /\ ~call.breakEverywhere) =>
        \A k \in 1..(Len(call.lines) - 1) :
            LET nxt == call.lines[k + 1].units IN
            (call.lines[k].cause = "wrap" /\ nxt # <<>> /\ nxt[1][2] > 1) =>
                ((\E i \in 1..Len(call.lines[k].units) :
                     LET u == call.lines[k].units[i] IN
                     u[1] = nxt[1][1] /\ u[2] >= 1 /\ EndsWord(u[1], u[2]))
                 => EndsWord(nxt[1][1], nxt[1][2] - 1))

\* C5, second half: with breakEverywhere = false, two consecutive
\* sub-chunks of a word lie on different lines only if the word does not
\* fit on a line of its own.
C5_NoBreakInFittingWord ==
    (call.ran /\ ~call.breakEverywhere) =>
        \A bi \in 1..Len(_blocks) :
            _blocks[bi].type = "Text" =>
                \A j \in 1..(Len(Words(bi)) - 1) :
                    (~EndsWord(bi, j) /\ LineOf(<< bi, j >>) # LineOf(<< bi, j + 1 >>))
                        => OwnWidth(bi, WordStart(bi, j), WordEnd(bi, j))
                             > EffWidth - call.lines[LineOf(<< bi, j + 1 >>)].pad

\* C5: with breakEverywhere = false the line is broken at the most recent
\* word end and the whole word starts the next line; no break falls between
\* two sub-chunks of a word that fits on a line of its own.
C5_BreakAtWordEnd == C5_BreakAtAnchor /\ C5_NoBreakInFittingWord

\* C6: at W >= _maxWidth the breaker itself wraps nothing: one line per
\* Newline and one for what follows the last; a single run gives one line
\* whose rounded-up width is _maxWidth.
C6_NoWrapAtNaturalWidth ==
    (call.op = "countLineWidths" /\ call.w >= _maxWidth) =>
        /\ \A k \in 1..Len(call.lines) : call.lines[k].cause # "wrap"
        /\ Len(call.lines) = NumNewlines + 1
        /\ Len(_blocks) = 1 => call.ret = << _maxWidth >>

\* C6 happens: the breaker run at exactly the natural width, not raised by
\* _minResizeWidth, over several lines, one of which carries an overhanging
\* bearing into the next block.
C6_Witness ==
    /\ call.op = "countLineWidths" /\ call.w = _maxWidth
    /\ _minResizeWidth <= call.w /\ NumNewlines >= 1
    /\ Len(call.lines) = NumNewlines + 1
    /\ \E i \in 1..(Len(_blocks) - 1) :
          f_rbearing(_blocks[i]) < 0 /\ _blocks[i + 1].type # "Newline"

\* C7: _minHeight is the sum of the heights of the lines plus one top and
\* one bottom padding for each paragraph, the start paragraph as well as
\* those a Newline with another paragraph index enters.
C7_PaddingOncePerParagraph ==
    _minHeight = LineHeightsFrom(_blocks, 1, 0)
                 + ParagraphFrame(_startParagraphIndex)
                 + FramesFrom(_blocks, 1, _startParagraphIndex)

-----------------------------------------------------------------------------
(* Properties of selection.                                                *)

\* whether the selection handed to the last adjustSelection was within the
\* guard of the function
WasAdjusted == Adjusts(call.selection.from, call.selection.to)

\* C8 as stated: Words-mode adjustSelection is idempotent, adjusting its own
\* result returns that result.
C8_WordsIdempotent ==
    (call.op = "adjustSelection" /\ call.selectType = "Words" /\ call.times = 2)
        => call.ret = call.selection

\* C8 as the code has it: adjusting a Words-mode result again keeps `from`
\* and never lowers `to`; the result is kept as a whole exactly when it was
\* outside the guard or its `to` is the end of the text, and otherwise `to`
\* moves on.
C8_WordsFromIdempotent ==
    (call.op = "adjustSelection" /\ call.selectType = "Words" /\ call.times = 2)
        => /\ call.ret.from = call.selection.from
           /\ call.ret.to >= call.selection.to
           /\ (call.ret = call.selection)
                <=> (~WasAdjusted \/ call.selection.to = Len(_text))

\* C8 happens: a Words-mode result whose `to` stands on a separator that
\* another separator follows, adjusted again.
C8_Witness ==
    /\ call.op = "adjustSelection" /\ call.selectType = "Words" /\ call.times = 2
    /\ WasAdjusted
    /\ call.selection.to + 1 < Len(_text)
    /\ IsWordSeparator(text_at(call.selection.to))
    /\ IsWordSeparator(text_at(call.selection.to + 1))
    /\ call.ret = [from |-> call.selection.from, to |-> call.selection.to + 1]

\* C9 as stated: in every mode a range with from >= to, the empty range
\* included, or with from >= the text length is returned as it was.
C9_DegenerateUnmodified ==
    (call.op = "adjustSelection"
     /\ (call.selection.from >= call.selection.to
         \/ call.selection.from >= Len(_text)))
        => call.ret = call.selection

\* C9 as the code has it: in every mode a range with from > to or with
\* from >= the text length is returned as it was; an empty range inside the
\* text is adjusted as any other, and in Words mode its `to` moves on.
C9_InvertedUnmodified ==
    call.op = "adjustSelection" =>
        /\ (call.selection.from > call.selection.to
            \/ call.selection.from >= Len(_text))
              => call.ret = call.selection
        /\ (call.selectType = "Words"
            /\ call.selection.from = call.selection.to
            /\ call.selection.from < Len(_text))
              => /\ call.ret.from <= call.selection.from
                 /\ call.ret.to > call.selection.to

\* C9 happens: an inverted range inside a text whose first block is
\* monospace, handed over in Paragraphs mode and returned as it was.
C9_Witness ==
    /\ call.op = "adjustSelection" /\ call.selectType = "Paragraphs"
    /\ call.times = 1
    /\ call.selection.from > call.selection.to
    /\ call.selection.from < Len(_text)
    /\ IsMono(_blocks[1].flags)
    /\ call.ret = call.selection

-----------------------------------------------------------------------------
(* Properties of the emitted widths.                                       *)

\* C20 as stated: every emitted line is at most as wide as the effective
\* width max(w, _minResizeWidth), unless its first unit alone, with the
\* paragraph's left and right padding, is wider than that.
C20_LineWithinWidth ==
    call.ran =>
        \A k \in 1..Len(call.lines) :
            \/ call.lines[k].width <= EffWidth
            \/ /\ call.lines[k].units # <<>>
               /\ call.lines[k].pad + UnitsWidth(<< call.lines[k].units[1] >>) > EffWidth

\* C20 as the code has it: every emitted line reports the width its units
\* take with the paragraph's padding, and that is at most the effective
\* width unless the padding with the line's first unit, if it has one, is
\* already wider; a line without units is as wide as the padding alone.
C20_LineWithinWidthOrPadding ==
    call.ran =>
        \A k \in 1..Len(call.lines) :
            /\ call.lines[k].width = call.lines[k].pad + UnitsWidth(call.lines[k].units)
            /\ \/ call.lines[k].width <= EffWidth
               \/ call.lines[k].pad
                    + (IF call.lines[k].units = <<>> THEN 0
                       ELSE UnitsWidth(<< call.lines[k].units[1] >>)) > EffWidth

\* C20 happens: a line of several units that fills the effective width to
\* less than a pixel, another unit having been refused on it.
C20_Witness ==
    /\ call.ran
    /\ \E k \in 1..Len(call.lines) :
          /\ call.lines[k].cause = "wrap"
          /\ Len(call.lines[k].units) >= 2
          /\ call.lines[k].width <= EffWidth
          /\ call.lines[k].width > EffWidth - FixedOne

-----------------------------------------------------------------------------
(* String::countMaxMonospaceWidth.                                         *)

\* b->flags() & (TextBlockFlag::Pre | TextBlockFlag::Code), or a Skip block
MonoOrSkip(b) == IsMono(b.flags) \/ b.type = "Skip"

\* The state before the first block.
MonoStart ==
    [ result |-> 0, paragraphWidth |-> 0, fullMonospace |-> TRUE,
      width |-> 0, last_rBearing |-> 0, last_rPadding |-> 0 ]

\* The Newline branch of the loop body.
MonoNewline(s, b) ==
    [ result         |-> IF s.fullMonospace
                         THEN Max(s.result, Max(s.paragraphWidth, s.width))
                         ELSE s.result,
      paragraphWidth |-> IF s.fullMonospace THEN 0 ELSE s.paragraphWidth,
      fullMonospace  |-> TRUE,
      width          |-> f_width(b) - f_rbearing(b),
      last_rBearing  |-> f_rbearing(b),
      last_rPadding  |-> f_rpadding(b) ]

\* The loop body for any other block.
MonoBlock(s, b) ==
    LET fullMonospace == s.fullMonospace /\ MonoOrSkip(b) IN
    [ s EXCEPT
        !.fullMonospace  = fullMonospace,
        !.paragraphWidth = IF fullMonospace THEN Max(s.paragraphWidth, s.width)
                           ELSE s.paragraphWidth,
        !.width          = Accumulate(s.width, s.last_rBearing, s.last_rPadding,
                                      f_width(b), f_rbearing(b)),
        !.last_rBearing  = f_rbearing(b),
        !.last_rPadding  = f_rpadding(b) ]

RECURSIVE MonoLoop(_, _, _)
MonoLoop(s, blocks, i) ==
    IF i > Len(blocks) THEN s
    ELSE MonoLoop(IF blocks[i].type = "Newline" THEN MonoNewline(s, blocks[i])
                  ELSE MonoBlock(s, blocks[i]),
                  blocks, i + 1)

\* if (_width > 0 && fullMonospace) { ... }
MonoFinish(s) ==
    IF s.width > 0 /\ s.fullMonospace
    THEN Max(s.result, Max(s.paragraphWidth, s.width))
    ELSE s.result

\* String::countMaxMonospaceWidth
countMaxMonospaceWidth ==
    CeilToInt(MonoFinish(MonoLoop(MonoStart, _blocks, 1)))

-----------------------------------------------------------------------------
(* The state machine of the monospace width: a String of up to            *)
(* MaxMonoBlocks blocks, each a monospace or a plain one-word Text block   *)
(* or a Newline, possibly ended by a Skip block, and the query made of it. *)

MaxMonoBlocks == 5

FlaggedBlock(words, flags) ==
    [ type |-> "Text", words |-> words, width |-> 0, height |-> 0,
      pindex |-> 0, flags |-> flags ]

\* Block::Skip(font, text, position, w, h, 0, 0)
SkipBlock(position, w, h) ==
    [ type |-> "Skip", words |-> <<>>, width |-> QFixed(w), height |-> h,
      pindex |-> 0, flags |-> "", position |-> position ]

FlaggedNewline ==
    [ type |-> "Newline", words |-> <<>>, width |-> 0, height |-> 0,
      pindex |-> 0, flags |-> "" ]

MonoBlocks ==
    { FlaggedBlock(<< WordA >>, "Code"), FlaggedBlock(<< WordB >>, "Pre"),
      FlaggedBlock(<< WordB >>, ""), FlaggedNewline }

MonoContents ==
    { c \in SeqsUpTo(MonoBlocks, MaxMonoBlocks) :
        c[1].type # "Newline" /\ c[Len(c)].type # "Newline" }
    \cup { Append(c, SkipBlock(Len(TextOf(c)), 1, 8)) :
             c \in { d \in SeqsUpTo(MonoBlocks, MaxMonoBlocks - 1) :
                       d[1].type # "Newline" /\ d[Len(d)].type # "Newline" } }

InitMono ==
    \E blocks \in MonoContents : Constructed(TextOf(blocks), blocks, 0, 0)

CountMaxMonospaceWidth ==
    /\ Idle
    /\ call' = [ op |-> "countMaxMonospaceWidth", ret |-> countMaxMonospaceWidth ]
    /\ StringUnchanged

NextMono == CountMaxMonospaceWidth

SpecMono == InitMono /\ [][NextMono]_vars

-----------------------------------------------------------------------------
(* Properties of the monospace width.                                      *)

RECURSIVE ParagraphsFrom(_, _, _)
\* the Newline-delimited paragraphs of blocks[i..], cur being the blocks of
\* the paragraph reached
ParagraphsFrom(blocks, i, cur) ==
    IF i > Len(blocks) THEN << cur >>
    ELSE IF blocks[i].type = "Newline"
    THEN << cur >> \o ParagraphsFrom(blocks, i + 1, <<>>)
    ELSE ParagraphsFrom(blocks, i + 1, Append(cur, blocks[i]))

RECURSIVE BlocksWidth(_)
\* the width blocks take side by side from the start of a line
BlocksWidth(bs) ==
    IF bs = <<>> THEN 0
    ELSE IF Len(bs) = 1 THEN f_width(bs[1]) - f_rbearing(bs[1])
    ELSE f_width(bs[1]) + f_rpadding(bs[1]) + BlocksWidth(Tail(bs))

RECURSIVE PeakWidth(_, _)
\* the widest of the first n, n - 1, ... blocks of a paragraph
PeakWidth(bs, n) ==
    IF n = 0 THEN 0 ELSE Max(BlocksWidth(SubSeq(bs, 1, n)), PeakWidth(bs, n - 1))

RECURSIVE WidestMono(_)
\* the widest peak among the paragraphs made of monospace and Skip blocks
WidestMono(ps) ==
    IF ps = <<>> THEN 0
    ELSE Max(IF \A n \in 1..Len(Head(ps)) : MonoOrSkip(Head(ps)[n])
             THEN PeakWidth(Head(ps), Len(Head(ps))) ELSE 0,
             WidestMono(Tail(ps)))

\* C16: countMaxMonospaceWidth is the rounded-up greatest peak width among
\* the Newline-delimited paragraphs made of Pre, Code and Skip blocks only;
\* a paragraph with any other block adds nothing, in itself or through a
\* width carried into a later paragraph.
C16_MonoParagraphsOnly ==
    call.op = "countMaxMonospaceWidth"
        => call.ret = CeilToInt(WidestMono(ParagraphsFrom(_blocks, 1, <<>>)))

-----------------------------------------------------------------------------
(* String::hasSkipBlock, updateSkipBlock, removeSkipBlock, and setText with *)
(* the clear() it starts with.                                              *)
(*                                                                          *)
(* Each operator below gives the fields its function leaves behind, as a    *)
(* record [text, blocks, added] with added the new _skipBlockAddedNewline;  *)
(* recountNaturalSize(false), which ends both modifying functions, is       *)
(* applied by Recounted.                                                    *)

\* QFixed::toInt()
ToInt(f) == f \div FixedOne

\* QString::resize(size): a negative size is taken for 0
Resize(text, size) == SubSeq(text, 1, Max(size, 0))

\* std::vector::pop_back on a vector that has an element
PopBack(blocks) == SubSeq(blocks, 1, Len(blocks) - 1)

\* String::hasSkipBlock()
hasSkipBlock == _blocks # <<>> /\ _blocks[Len(_blocks)].type = "Skip"

\* the first branch's early return: the Skip block has the size asked for
SameSkip(width, height) ==
    /\ hasSkipBlock
    /\ ToInt(f_width(_blocks[Len(_blocks)])) = width
    /\ _blocks[Len(_blocks)].height = height

\* The first branch without its resize and pop_back: the Skip block of
\* another size stays where it is.
DropSkip_keeps(text, blocks) == [ text |-> text, blocks |-> blocks ]

\* _text.resize(block->position()); _blocks.pop_back();
DropSkip(text, blocks) ==
    [ text   |-> Resize(text, blocks[Len(blocks)].position),
      blocks |-> PopBack(blocks) ]

\* The part of updateSkipBlock before the Skip block is pushed.
UpdatePrepare ==
    IF hasSkipBlock
    THEN LET d == DropSkip(_text, _blocks)
         IN  [ text |-> d.text, blocks |-> d.blocks,
               added |-> _skipBlockAddedNewline ]
    ELSE IF _endsWithParagraphDetails
    THEN [ text   |-> Append(_text, LineFeed),
           blocks |-> Append(_blocks, NewlineBlock(0)),
           added  |-> TRUE ]
    ELSE [ text |-> _text, blocks |-> _blocks, added |-> _skipBlockAddedNewline ]

\* updateSkipBlock(width, height) when it returns true
updateSkipBlock(width, height) ==
    LET p == UpdatePrepare
        text == Append(p.text, "_")
    IN  [ text   |-> text,
          blocks |-> Append(p.blocks, SkipBlock(Len(text) - 1, width, height)),
          added  |-> p.added ]

\* removeSkipBlock() pops two blocks where the vector holds one: the
\* behaviour of the second pop_back is undefined.
RemoveUndefined == hasSkipBlock /\ _skipBlockAddedNewline /\ Len(_blocks) < 2

\* removeSkipBlock() when it returns true
removeSkipBlock ==
    LET position == _blocks[Len(_blocks)].position IN
    IF _skipBlockAddedNewline
    THEN [ text   |-> Resize(_text, position - 1),
           blocks |-> PopBack(PopBack(_blocks)),
           added  |-> FALSE ]
    ELSE [ text   |-> Resize(_text, position),
           blocks |-> PopBack(_blocks),
           added  |-> _skipBlockAddedNewline ]

\* The fields a modifying function leaves, recountNaturalSize(false) included.
Recounted(r) ==
    LET n == recountNaturalSize(r.blocks, _startParagraphIndex) IN
    /\ _text' = r.text
    /\ _blocks' = r.blocks
    /\ _skipBlockAddedNewline' = r.added
    /\ _maxWidth' = n.maxWidth
    /\ _minHeight' = n.minHeight
    /\ _endsWithParagraphDetails' = n.endsWithParagraphDetails

\* what the frame conditions of a call are stated about
Fields ==
    [ text |-> _text, blocks |-> _blocks, maxWidth |-> _maxWidth,
      minHeight |-> _minHeight, added |-> _skipBlockAddedNewline ]

\* The record of a call: the function, its arguments and result, the fields
\* before it and, for a removeSkipBlock that follows an updateSkipBlock,
\* the same about that call.
Called(op, width, height, ret) ==
    [ op |-> op, width |-> width, height |-> height, ret |-> ret,
      before |-> Fields,
      prev |-> IF op = "removeSkipBlock" /\ call.op = "updateSkipBlock"
               THEN [ op |-> call.op, ret |-> call.ret, before |-> call.before ]
               ELSE [ op |-> "none", ret |-> FALSE, before |-> Fields ] ]

MaxSkipText == 3

SkipTextBlocks == { TextBlock(<<WordA>>), NewlineBlock(0), NewlineBlock(1) }

\* The parsed contents: none, or blocks that neither start nor end with a
\* Newline, with the paragraph the text starts in.
SkipContents ==
    { [ blocks |-> <<>>, startIndex |-> 0 ] }
    \cup { [ blocks |-> c, startIndex |-> i ] :
             c \in { d \in SeqsUpTo(SkipTextBlocks, MaxSkipText) :
                       d[1].type # "Newline" /\ d[Len(d)].type # "Newline" },
             i \in {0, 1} }

SkipWidths == {1, 2}
SkipHeights == {8, 12}

InitSkip ==
    \E c \in SkipContents :
        Constructed(TextOf(c.blocks), c.blocks, c.startIndex, 0)

\* a call whose behaviour was undefined ends the behaviour
Defined == call.op # "undefined"

\* setText(st, text, options): clear(), the parser, recountNaturalSize(true)
SetText ==
    \E c \in SkipContents :
        LET n == recountNaturalSize(c.blocks, c.startIndex) IN
        /\ Defined
        /\ _text' = TextOf(c.blocks)
        /\ _blocks' = c.blocks
        /\ _extended' = NoExtended
        /\ _startParagraphIndex' = c.startIndex
        /\ _maxWidth' = n.maxWidth
        /\ _minHeight' = n.minHeight
        /\ _endsWithParagraphDetails' = n.endsWithParagraphDetails
        /\ parsed' = [ text |-> TextOf(c.blocks), blocks |-> c.blocks ]
        /\ call' = Called("setText", 0, 0, FALSE)
        /\ UNCHANGED << _minResizeWidth, _skipBlockAddedNewline, self >>

UpdateSkipBlock ==
    \E width \in SkipWidths, height \in SkipHeights :
        /\ Defined
        /\ IF SameSkip(width, height)
           THEN /\ call' = Called("updateSkipBlock", width, height, FALSE)
                /\ UNCHANGED << _text, _blocks, _skipBlockAddedNewline,
                                _maxWidth, _minHeight, _endsWithParagraphDetails >>
           ELSE /\ call' = Called("updateSkipBlock", width, height, TRUE)
                /\ Recounted(updateSkipBlock(width, height))
        /\ UNCHANGED << _minResizeWidth, _startParagraphIndex, _extended,
                        self, parsed >>

RemoveSkipBlock ==
    /\ Defined
    /\ IF ~hasSkipBlock
       THEN /\ call' = Called("removeSkipBlock", 0, 0, FALSE)
            /\ UNCHANGED << _text, _blocks, _skipBlockAddedNewline,
                            _maxWidth, _minHeight, _endsWithParagraphDetails >>
       ELSE IF RemoveUndefined
       THEN /\ call' = Called("undefined", 0, 0, FALSE)
            /\ \/ UNCHANGED << _text, _blocks, _skipBlockAddedNewline,
                               _maxWidth, _minHeight, _endsWithParagraphDetails >>
               \/ Recounted([ text |-> <<>>, blocks |-> <<>>, added |-> FALSE ])
       ELSE /\ call' = Called("removeSkipBlock", 0, 0, TRUE)
            /\ Recounted(removeSkipBlock)
    /\ UNCHANGED << _minResizeWidth, _startParagraphIndex, _extended,
                    self, parsed >>

NextSkip == SetText \/ UpdateSkipBlock \/ RemoveSkipBlock

SpecSkip == InitSkip /\ [][NextSkip]_vars

-----------------------------------------------------------------------------
(* Properties of the Skip block.                                            *)

\* C17: a removeSkipBlock that returns true leaves the text and the blocks
\* the parser produced for the current content, so it removes only what
\* updateSkipBlock appended to it, and _skipBlockAddedNewline is false
\* after setText.
C17_RemovesOnlyAppended ==
    /\ call.op = "removeSkipBlock" /\ call.ret
           => _text = parsed.text /\ _blocks = parsed.blocks
    /\ call.op = "setText" => ~_skipBlockAddedNewline

\* the indices of the Skip blocks
SkipIndices == { i \in 1..Len(_blocks) : _blocks[i].type = "Skip" }

\* C13: there is at most one Skip block, it is the last block, its position
\* is the index of the last character of the text, and hasSkipBlock() is
\* true exactly when there is one.
C13_SkipIsLast ==
    Defined =>
        /\ Cardinality(SkipIndices) <= 1
        /\ \A i \in SkipIndices :
               /\ i = Len(_blocks)
               /\ _blocks[i].position = Len(_text) - 1
        /\ hasSkipBlock <=> SkipIndices # {}

\* a Skip block of another size replaced one that had a Newline added
C13_Witness ==
    /\ call.op = "updateSkipBlock" /\ call.ret
    /\ call.before.blocks # <<>>
    /\ call.before.blocks[Len(call.before.blocks)].type = "Skip"
    /\ call.before.added
    /\ hasSkipBlock
    /\ Len(_blocks) = Len(parsed.blocks) + 2

\* blocks ends with a Skip block of width by height pixels
EndsWithSkip(blocks, width, height) ==
    /\ blocks # <<>>
    /\ blocks[Len(blocks)].type = "Skip"
    /\ ToInt(f_width(blocks[Len(blocks)])) = width
    /\ blocks[Len(blocks)].height = height

\* how many blocks of the type there are
CountType(blocks, type) ==
    Cardinality({ i \in 1..Len(blocks) : blocks[i].type = type })

\* what updateSkipBlock(w, h) returns and leaves
UpdateFrame ==
    call.op = "updateSkipBlock" =>
        IF EndsWithSkip(call.before.blocks, call.width, call.height)
        THEN ~call.ret /\ Fields = call.before
        ELSE /\ call.ret
             /\ EndsWithSkip(_blocks, call.width, call.height)
             /\ CountType(_blocks, "Skip") = 1
             /\ CountType(call.before.blocks, "Skip") = 1
                    => CountType(_blocks, "Newline")
                           = CountType(call.before.blocks, "Newline")

\* removeSkipBlock() after updateSkipBlock(w, h) leaves what was there
\* before the update
RemoveRestores ==
    call.op = "removeSkipBlock" /\ call.prev.op = "updateSkipBlock" =>
        /\ _text = call.prev.before.text
        /\ _blocks = call.prev.before.blocks
        /\ _maxWidth = call.prev.before.maxWidth
        /\ _minHeight = call.prev.before.minHeight

\* C18: updateSkipBlock(w, h) returns false and changes nothing when the
\* last block is a Skip block of that size; otherwise it returns true, the
\* String ends with exactly one Skip block of that size, and replacing a
\* Skip block adds no Newline block.  removeSkipBlock after updateSkipBlock
\* restores the text, the blocks, _maxWidth and _minHeight.
C18_UpdateThenRemove == UpdateFrame /\ RemoveRestores

-----------------------------------------------------------------------------
(* The extended data: String::setSpoilerRevealed, setSpoilerLinkFilter and  *)
(* the moves of String::ExtendedWrap.                                       *)
(*                                                                          *)
(* _extended is NoExtended or a record [links, spoiler]; spoiler is None or *)
(* a record [revealed, animating, from, to, link], where animating, from    *)
(* and to are the state of revealAnimation; link is None or the record      *)
(* [text] of the SpoilerClickHandler, text being the address of a String.   *)
(* A String at address a holds its ExtendedWrap at a + ExtendedOffset.      *)

\* a null pointer
None == [none |-> TRUE]
IsNone(pointer) == "none" \in DOMAIN pointer

\* _extended ? _extended->spoiler.get() : nullptr
SpoilerOf(extended) == IF IsNone(extended) THEN None ELSE extended.spoiler

\* Ui::Animations::Simple::stop()
AnimationStop(data) == [ data EXCEPT !.animating = FALSE ]

\* Ui::Animations::Simple::start(callback, from, to, duration)
AnimationStart(data, from, to) ==
    [ data EXCEPT !.animating = TRUE, !.from = from, !.to = to ]

\* The test of the first branch for any mode: a repeated request cancels
\* the animation in flight however it was asked.
CancelsInFlight_anyMode(data, animated) == data.animating

\* animated == anim::type::instant && data->revealAnimation.animating()
CancelsInFlight(data, animated) == animated = "instant" /\ data.animating

\* setSpoilerRevealed(revealed, animated) on the spoiler data: the data it
\* leaves and the number of times it called the repaint callback
SpoilerRevealed(data, revealed, animated) ==
    IF data.revealed = revealed
    THEN IF CancelsInFlight(data, animated)
         THEN [ data |-> AnimationStop(data), repaints |-> 1 ]
         ELSE [ data |-> data, repaints |-> 0 ]
    ELSE LET d == [ data EXCEPT !.revealed = revealed ] IN
         IF animated = "instant"
         THEN [ data |-> AnimationStop(d), repaints |-> 1 ]
         ELSE [ data |-> AnimationStart(d, IF revealed THEN 0 ELSE 1,
                                           IF revealed THEN 1 ELSE 0),
                repaints |-> 0 ]

\* String::setSpoilerRevealed: the extended data it leaves and the repaints
setSpoilerRevealed(revealed, animated) ==
    IF IsNone(SpoilerOf(_extended))
    THEN [ extended |-> _extended, repaints |-> 0 ]
    ELSE LET r == SpoilerRevealed(_extended.spoiler, revealed, animated)
         IN  [ extended |-> [ _extended EXCEPT !.spoiler = r.data ],
               repaints |-> r.repaints ]

\* String::setSpoilerLinkFilter: make_shared<SpoilerClickHandler>(this, filter)
setSpoilerLinkFilter ==
    [ _extended EXCEPT !.spoiler.link = [ text |-> self ] ]

ExtendedOffset == 4

\* the address of the ExtendedWrap of the String at address
WrapOf(address) == Pointer(address + ExtendedOffset)

\* The adjustment that leaves the handler as it was.
Shifted_kept(otherText, this, other) == otherText

\* otherText + raw(this) - raw(other)
Shifted(otherText, this, other) == Pointer(Pointer(otherText + this) - other)

\* adjustFrom(other) on the wrap at this, its link not being null
adjustFrom(extended, this, other) ==
    IF IsNone(SpoilerOf(extended)) THEN extended
    ELSE [ extended EXCEPT
             !.spoiler.link.text = Shifted(extended.spoiler.link.text, this, other) ]

\* adjustFrom dereferences spoiler->link, which is null until
\* setSpoilerLinkFilter: the behaviour of the move is then undefined
MoveUndefined ==
    ~IsNone(SpoilerOf(_extended)) /\ IsNone(_extended.spoiler.link)

\* The extended data the parser may leave.
HiddenSpoiler ==
    [ revealed |-> FALSE, animating |-> FALSE, from |-> 0, to |-> 0,
      link |-> None ]
ParsedExtended ==
    { NoExtended,
      [ links |-> <<>>, spoiler |-> None ],
      [ links |-> <<>>, spoiler |-> HiddenSpoiler ] }

\* The record of a call on the extended data.
CalledExtended(op, revealed, animated, repaints) ==
    [ op |-> op, revealed |-> revealed, animated |-> animated,
      repaints |-> repaints, before |-> _extended, from |-> self ]

InitSpoiler ==
    /\ Parsed(TextOf(<<TextBlock(<<WordA>>)>>), <<TextBlock(<<WordA>>)>>, 0, 0)
    /\ _extended \in ParsedExtended
    /\ self \in Addresses

ExtendedFrame ==
    UNCHANGED << _text, _blocks, _minResizeWidth, _startParagraphIndex,
                 _maxWidth, _minHeight, _endsWithParagraphDetails,
                 _skipBlockAddedNewline, parsed >>

SetSpoilerRevealed ==
    \E revealed \in BOOLEAN, animated \in {"instant", "normal"} :
        LET r == setSpoilerRevealed(revealed, animated) IN
        /\ Defined
        /\ _extended' = r.extended
        /\ call' = CalledExtended("setSpoilerRevealed", revealed, animated,
                                  r.repaints)
        /\ UNCHANGED self
        /\ ExtendedFrame

\* Expects(_extended && _extended->spoiler)
SetSpoilerLinkFilter ==
    /\ Defined
    /\ ~IsNone(SpoilerOf(_extended))
    /\ _extended' = setSpoilerLinkFilter
    /\ call' = CalledExtended("setSpoilerLinkFilter", FALSE, "", 0)
    /\ UNCHANGED self
    /\ ExtendedFrame

\* The animation driver ends the reveal animation with a last repaint.
AnimationFinished ==
    /\ Defined
    /\ ~IsNone(SpoilerOf(_extended))
    /\ _extended.spoiler.animating
    /\ _extended' = [ _extended EXCEPT !.spoiler = AnimationStop(@) ]
    /\ call' = CalledExtended("animationFinished", FALSE, "", 1)
    /\ UNCHANGED self
    /\ ExtendedFrame

\* The String moves to the address to: its ExtendedWrap at WrapOf(to) takes
\* the pointer of the wrap at WrapOf(self) and adjusts from it.
Moved(op, to) ==
    /\ to # self
    /\ self' = to
    /\ IF MoveUndefined
       THEN /\ call' = CalledExtended("undefined", FALSE, "", 0)
            /\ UNCHANGED _extended
       ELSE /\ call' = CalledExtended(op, FALSE, "", 0)
            /\ _extended' = adjustFrom(_extended, WrapOf(to), WrapOf(self))
    /\ ExtendedFrame

\* String::String(String &&other)
MoveConstruct ==
    \E to \in Addresses :
        /\ Defined
        /\ Moved("moveConstruct", to)

\* String::operator=(String &&other)
MoveAssign ==
    \E to \in Addresses :
        /\ Defined
        /\ Moved("moveAssign", to)

NextSpoiler ==
    \/ SetSpoilerRevealed
    \/ SetSpoilerLinkFilter
    \/ AnimationFinished
    \/ MoveConstruct
    \/ MoveAssign

SpecSpoiler == InitSpoiler /\ [][NextSpoiler]_vars

\* C14: setSpoilerRevealed(r, mode) without spoiler data changes nothing;
\* with revealed == r already it changes nothing and repaints nothing,
\* except that in instant mode with the animation in flight it stops the
\* animation and repaints once; with revealed # r it sets revealed to r and
\* in instant mode stops the animation and repaints, in animated mode starts
\* the animation from 0 to 1 when revealing and from 1 to 0 when hiding.
C14_SpoilerToggle ==
    call.op = "setSpoilerRevealed" =>
        LET before == SpoilerOf(call.before)
            instant == call.animated = "instant"
        IN  IF IsNone(before)
            THEN _extended = call.before /\ call.repaints = 0
            ELSE LET data == _extended.spoiler IN
                 IF before.revealed = call.revealed
                 THEN IF instant /\ before.animating
                      THEN /\ data = [ before EXCEPT !.animating = FALSE ]
                           /\ call.repaints = 1
                      ELSE _extended = call.before /\ call.repaints = 0
                 ELSE /\ data.revealed = call.revealed
                      /\ data.link = before.link
                      /\ IF instant
                         THEN ~data.animating /\ call.repaints = 1
                         ELSE /\ data.animating
                              /\ data.from = (IF call.revealed THEN 0 ELSE 1)
                              /\ data.to = (IF call.revealed THEN 1 ELSE 0)

\* the same state asked again in animated mode while the reveal animation
\* is in flight
C14_Witness ==
    /\ call.op = "setSpoilerRevealed"
    /\ ~IsNone(SpoilerOf(call.before))
    /\ call.before.spoiler.animating
    /\ call.before.spoiler.revealed = call.revealed
    /\ call.animated = "normal"
    /\ _extended.spoiler.animating

\* C15: the click handler of the spoiler, once set, refers to the String
\* that owns the extended data wherever the String was moved, and so not
\* to the address the String was moved from.
C15_HandlerFollowsOwner ==
    Defined /\ ~IsNone(SpoilerOf(_extended))
            /\ ~IsNone(_extended.spoiler.link)
        => /\ _extended.spoiler.link.text = self
           /\ call.op \in {"moveConstruct", "moveAssign"}
                  => _extended.spoiler.link.text # call.from

\* a String with a handler was moved, then moved again by assignment
C15_Witness ==
    /\ call.op = "moveAssign"
    /\ ~IsNone(SpoilerOf(call.before))
    /\ ~IsNone(call.before.spoiler.link)
    /\ call.before.spoiler.link.text = call.from
    /\ call.from # Pointer(0 - StringSize)
    /\ _extended.spoiler.link.text = self

-----------------------------------------------------------------------------
(* String::enumerateText and String::toText.                                *)
(*                                                                          *)
(* For extraction a block carries its position in _text, its flags as a    *)
(* set of flag names and its linkIndex; _extended.links is the table of     *)
(* click handlers, a handler being None or the record [type, internal] of  *)
(* what its getTextEntity() returns: the entity type, and whether the data *)
(* of a CustomUrl starts with "internal:".  enumerateText is modelled by    *)
(* the sequence of callbacks it makes, toText by what its callbacks do     *)
(* with them; the expanded text of toText is left out.                      *)

\* IsMono(flags), on a set of flags
IsMonoFlags(flags) == flags \cap {"Code", "Pre"} # {}

\* String::isEmpty()
isEmpty == _blocks = <<>> \/ _blocks[1].type = "Skip"

\* (i == e) ? uint16(_text.size()) : (*i)->position()
PositionAt(i) == IF i > Len(_blocks) THEN Len(_text) ELSE _blocks[i].position

\* (i == e) ? TextBlockFlags() : (*i)->flags()
FlagsAt(i) == IF i > Len(_blocks) THEN {} ELSE _blocks[i].flags

\* blockLinkIndex: none for a monospace block, past the blocks, without
\* extended data or without a handler at the index
LinkIndexAt(i) ==
    IF i > Len(_blocks) \/ IsMonoFlags(FlagsAt(i)) THEN 0
    ELSE LET result == _blocks[i].linkIndex IN
         IF result # 0 /\ ~IsNone(_extended) /\ ~IsNone(_extended.links[result])
         THEN result ELSE 0

\* String::countBlockLength(i, e)
countBlockLength(i) == PositionAt(i + 1) - PositionAt(i)

\* The link part of the loop body: the callbacks for a link that ends and
\* for one that starts at block i, and the link state after them.
LinkChange(s, selection, i) ==
    LET blockPosition == PositionAt(i)
        blockLinkIndex == LinkIndexAt(i)
        rangeFrom == Max(selection.from, s.linkPosition)
        rangeTo == Min(selection.to, blockPosition)
        partial == s.linkPosition # rangeFrom \/ blockPosition # rangeTo
                       \/ IsNone(_extended)
        finish == IF s.linkIndex # 0 /\ rangeTo > rangeFrom
                  THEN << [ cb |-> "clickHandlerFinish",
                            from |-> rangeFrom, to |-> rangeTo,
                            handler |-> IF partial THEN None
                                        ELSE _extended.links[s.linkIndex] ] >>
                  ELSE <<>>
        start == IF blockLinkIndex # 0
                 THEN << [ cb |-> "clickHandlerStart" ] >>
                 ELSE <<>>
    IN  IF blockLinkIndex = s.linkIndex THEN s
        ELSE [ s EXCEPT
                 !.linkIndex = blockLinkIndex,
                 !.linkPosition = IF blockLinkIndex # 0 THEN blockPosition ELSE @,
                 !.calls = @ \o finish \o start ]

\* checkBlockFlags
ChecksFlags(selection, blockPosition) ==
    blockPosition >= selection.from /\ blockPosition <= selection.to

\* The flags part of the loop body.
FlagsChange(s, selection, i) ==
    IF ChecksFlags(selection, PositionAt(i)) /\ FlagsAt(i) # s.flags
    THEN [ s EXCEPT
             !.flags = FlagsAt(i),
             !.calls = Append(@, [ cb |-> "flagsChange", old |-> s.flags,
                                   new |-> FlagsAt(i) ]) ]
    ELSE s

\* the loop's break
Breaks(s, selection, i) ==
    \/ i > Len(_blocks)
    \/ (IF s.linkIndex # 0 THEN s.linkPosition ELSE PositionAt(i)) >= selection.to

\* The text part without the test for a Skip block.
AppendPart_withSkip(s, selection, i) ==
    LET rangeFrom == Max(selection.from, PositionAt(i))
        rangeTo == Min(selection.to, PositionAt(i) + countBlockLength(i))
    IN  IF rangeTo > rangeFrom
        THEN [ s EXCEPT !.calls = Append(@, [ cb |-> "appendPart",
                                              from |-> rangeFrom,
                                              to |-> rangeTo ]) ]
        ELSE s

\* The text part of the loop body: nothing for a Skip block, else the part
\* of the block the selection holds.
AppendPart(s, selection, i) ==
    LET rangeFrom == Max(selection.from, PositionAt(i))
        rangeTo == Min(selection.to, PositionAt(i) + countBlockLength(i))
    IN  IF _blocks[i].type # "Skip" /\ rangeTo > rangeFrom
        THEN [ s EXCEPT !.calls = Append(@, [ cb |-> "appendPart",
                                              from |-> rangeFrom,
                                              to |-> rangeTo ]) ]
        ELSE s

RECURSIVE EnumerateTextLoop(_, _, _)
EnumerateTextLoop(s, selection, i) ==
    LET t == FlagsChange(LinkChange(s, selection, i), selection, i) IN
    IF Breaks(t, selection, i) THEN t
    ELSE EnumerateTextLoop(AppendPart(t, selection, i), selection, i + 1)

\* enumerateText(selection, ...): the callbacks made, in order
enumerateText(selection) ==
    IF isEmpty \/ selection.from = selection.to THEN <<>>
    ELSE EnumerateTextLoop(
            [ linkIndex |-> 0, linkPosition |-> 0, flags |-> {}, calls |-> <<>> ],
            selection, 1).calls

\* markdownTrackers: the flags tracked, in the order of the vector; the
\* entity type of a flag has the name of the flag
Trackers ==
    << "Italic", "Bold", "Semibold", "Underline", "Spoiler", "StrikeOut",
       "Code", "Pre", "Blockquote" >>

RECURSIVE InsertAt(_, _, _)
\* insertEntity: before the entities, taken from the end, whose offset is
\* greater than the new one's
InsertAt(entities, entity, i) ==
    IF i > 1 /\ entities[i - 1].offset > entity.offset
    THEN InsertAt(entities, entity, i - 1)
    ELSE SubSeq(entities, 1, i - 1) \o << entity >>
             \o SubSeq(entities, i, Len(entities))

insertEntity(entities, entity) == InsertAt(entities, entity, Len(entities) + 1)

RECURSIVE TrackFlags(_, _, _, _)
\* flagsChangeCallback(oldFlags, newFlags) from tracker n on
TrackFlags(r, old, new, n) ==
    IF n > Len(Trackers) THEN r
    ELSE LET flag == Trackers[n]
             next == IF flag \in old /\ flag \notin new
                     THEN [ r EXCEPT !.entities = insertEntity(@,
                              [ type |-> flag, offset |-> r.start[flag],
                                length |-> Len(r.text) - r.start[flag] ]) ]
                     ELSE IF flag \in new /\ flag \notin old
                     THEN [ r EXCEPT !.start[flag] = Len(r.text) ]
                     ELSE r
         IN  TrackFlags(next, old, new, n + 1)

\* The finish callback that makes an entity of an internal link too.
FinishLink_internalToo(r, c, composeEntities) ==
    IF IsNone(c.handler) \/ ~composeEntities THEN r
    ELSE [ r EXCEPT !.entities = insertEntity(@,
             [ type |-> c.handler.type, offset |-> r.linkStart,
               length |-> Len(r.text) - r.linkStart ]) ]

\* clickHandlerFinishCallback(inText, handler, type)
FinishLink(r, c, composeEntities) ==
    IF IsNone(c.handler) \/ ~composeEntities THEN r
    ELSE LET internalLink == c.handler.type = "CustomUrl" /\ c.handler.internal
         IN  IF internalLink THEN r
             ELSE [ r EXCEPT !.entities = insertEntity(@,
                      [ type |-> c.handler.type, offset |-> r.linkStart,
                        length |-> Len(r.text) - r.linkStart ]) ]

\* one callback of toText applied to what it gathered so far
Callback(r, c, composeEntities) ==
    IF c.cb = "appendPart"
    THEN [ r EXCEPT !.text = @ \o SubSeq(_text, c.from + 1, c.to) ]
    ELSE IF c.cb = "clickHandlerStart"
    THEN [ r EXCEPT !.linkStart = Len(r.text) ]
    ELSE IF c.cb = "clickHandlerFinish"
    THEN FinishLink(r, c, composeEntities)
    ELSE IF composeEntities THEN TrackFlags(r, c.old, c.new, 1) ELSE r

RECURSIVE Callbacks(_, _, _, _)
Callbacks(r, calls, n, composeEntities) ==
    IF n > Len(calls) THEN r
    ELSE Callbacks(Callback(r, calls[n], composeEntities), calls, n + 1,
                   composeEntities)

\* the key of the final std::sort
IsUrl(entity) == entity.type \in {"Url", "CustomUrl"}
Before(a, b) ==
    \/ a.offset < b.offset
    \/ a.offset = b.offset /\ IsUrl(a) /\ ~IsUrl(b)

RECURSIVE SortEntities(_)
\* std::sort(entities, pred): the order of entities the predicate does not
\* tell apart is that of insertion here; nothing stated below depends on it
SortEntities(entities) ==
    IF entities = <<>> THEN <<>>
    ELSE LET least == { i \in 1..Len(entities) :
                          \A k \in 1..Len(entities) :
                              ~Before(entities[k], entities[i]) }
             first == CHOOSE i \in least : \A k \in least : i <= k
             rest == SubSeq(entities, 1, first - 1)
                         \o SubSeq(entities, first + 1, Len(entities))
         IN  << entities[first] >> \o SortEntities(rest)

\* toText(selection, false, composeEntities).rich
toText(selection, composeEntities) ==
    LET r == Callbacks([ text |-> <<>>, entities |-> <<>>, linkStart |-> 0,
                         start |-> [ flag \in { Trackers[n] : n \in 1..Len(Trackers) }
                                       |-> 0 ] ],
                       enumerateText(selection), 1, composeEntities)
    IN  [ text |-> r.text,
          entities |-> IF composeEntities THEN SortEntities(r.entities)
                       ELSE r.entities ]

\* String::toString(selection)
toString(selection) == toText(selection, FALSE).text

MaxTextBlocks == 3

\* the characters of Text blocks, by their index in the text
Letters == << "a", "b", "c", "d", "e", "f", "g", "h", "i", "j" >>

\* what tells the Text blocks apart: flags and link index
TextKinds ==
    { [ flags |-> {}, linkIndex |-> 0 ],
      [ flags |-> {"Bold"}, linkIndex |-> 0 ],
      [ flags |-> {}, linkIndex |-> 1 ],
      [ flags |-> {"Bold", "Italic"}, linkIndex |-> 2 ],
      [ flags |-> {"Code"}, linkIndex |-> 1 ] }

\* a block as extraction sees it
ExtractBlock(type, position, kind) ==
    [ type |-> type, words |-> IF type = "Text" THEN << WordA >> ELSE <<>>,
      width |-> 0, height |-> 0, pindex |-> 0, position |-> position,
      flags |-> kind.flags, linkIndex |-> kind.linkIndex ]

BlockKinds ==
    { [ type |-> "Text", kind |-> k ] : k \in TextKinds }
    \cup { [ type |-> "Newline", kind |-> [ flags |-> {}, linkIndex |-> 0 ] ] }

RECURSIVE PositionOf(_, _)
\* where block n of the kinds starts: a Text block takes two characters
PositionOf(kinds, n) ==
    IF n = 1 THEN 0
    ELSE PositionOf(kinds, n - 1) + (IF kinds[n - 1].type = "Text" THEN 2 ELSE 1)

\* the blocks of the kinds, with a Skip block after them if asked for
ExtractBlocks(kinds, skip) ==
    [ n \in 1..Len(kinds) |->
        ExtractBlock(kinds[n].type, PositionOf(kinds, n), kinds[n].kind) ]
    \o (IF skip
        THEN << [ ExtractBlock("Skip", PositionOf(kinds, Len(kinds) + 1),
                               [ flags |-> {}, linkIndex |-> 0 ])
                    EXCEPT !.width = QFixed(1), !.height = 8 ] >>
        ELSE <<>>)

\* the text of the blocks: letters, line feeds and the Skip sentinel
ExtractText(blocks) ==
    [ k \in 1..(IF blocks = <<>> THEN 0
                ELSE blocks[Len(blocks)].position
                       + (IF blocks[Len(blocks)].type = "Text" THEN 2 ELSE 1)) |->
        LET n == CHOOSE m \in 1..Len(blocks) :
                     /\ blocks[m].position < k
                     /\ m < Len(blocks) => blocks[m + 1].position >= k
        IN  IF blocks[n].type = "Text" THEN Letters[k]
            ELSE IF blocks[n].type = "Newline" THEN LineFeed
            ELSE "_" ]

\* The handlers of a link: an Url, a CustomUrl, a CustomUrl whose data
\* starts with "internal:".
UrlHandler == [ type |-> "Url", internal |-> FALSE ]
CustomUrlHandler == [ type |-> "CustomUrl", internal |-> FALSE ]
InternalHandler == [ type |-> "CustomUrl", internal |-> TRUE ]

\* The extended data the parser may leave for blocks with link indices up
\* to 2: none, or a table of two handlers.
LinkTables ==
    { NoExtended }
    \cup { [ links |-> << h, UrlHandler >>, spoiler |-> None ] :
             h \in { CustomUrlHandler, InternalHandler } }

ExtractContents ==
    { ExtractBlocks(kinds, skip) :
        kinds \in SeqsUpTo(BlockKinds, MaxTextBlocks), skip \in BOOLEAN }

InitText ==
    \E blocks \in ExtractContents :
        /\ Parsed(ExtractText(blocks), blocks, 0, 0)
        /\ _extended \in
             IF \E n \in 1..Len(blocks) : blocks[n].linkIndex = 1
             THEN LinkTables
             ELSE { [ links |-> << CustomUrlHandler, UrlHandler >>,
                      spoiler |-> None ] }
        /\ self = Pointer(0 - StringSize)

\* AllTextSelection
AllTextSelection == [ from |-> 0, to |-> 65535 ]

\* the selections tried: the whole text, an empty one, and the ranges of
\* the text
TextSelections ==
    { AllTextSelection, [ from |-> 0, to |-> 0 ] }
    \cup { s \in [ from : 0..Len(_text), to : 0..Len(_text) ] : s.from < s.to }

CallToString ==
    \E selection \in TextSelections :
        /\ Idle
        /\ call' = [ op |-> "toString", selection |-> selection,
                     ret |-> [ text |-> toString(selection), entities |-> <<>> ] ]
        /\ StringUnchanged

CallToTextWithEntities ==
    \E selection \in TextSelections :
        /\ Idle
        /\ call' = [ op |-> "toTextWithEntities", selection |-> selection,
                     ret |-> toText(selection, TRUE) ]
        /\ StringUnchanged

NextText == CallToString \/ CallToTextWithEntities

SpecText == InitText /\ [][NextText]_vars

-----------------------------------------------------------------------------
(* Properties of the extracted text and entities.                           *)

RECURSIVE BlocksText(_)
\* the characters of the non-Skip blocks from block n on, in order
BlocksText(n) ==
    IF n > Len(_blocks) THEN <<>>
    ELSE (IF _blocks[n].type = "Skip" THEN <<>>
          ELSE SubSeq(_text, PositionAt(n) + 1, PositionAt(n + 1)))
         \o BlocksText(n + 1)

\* C12: toString over the full selection returns the characters of the
\* non-Skip blocks once each and in order; its length is that of the text
\* less one if the last block is a Skip block.
C12_FullTextWithoutSentinel ==
    call.op = "toString" /\ call.selection = AllTextSelection =>
        /\ call.ret.text = BlocksText(1)
        /\ Len(call.ret.text) = Len(_text) - (IF hasSkipBlock THEN 1 ELSE 0)

\* a text with a link, a Newline and a Skip block
C12_Witness ==
    /\ call.op = "toString" /\ call.selection = AllTextSelection
    /\ hasSkipBlock
    /\ \E n \in 1..Len(_blocks) : LinkIndexAt(n) # 0
    /\ \E n \in 1..Len(_blocks) : _blocks[n].type = "Newline"
    /\ Len(call.ret.text) = Len(_text) - 1

\* the block that holds the character at index k of the text
BlockOf(k) ==
    CHOOSE n \in 1..Len(_blocks) : PositionAt(n) <= k /\ k < PositionAt(n + 1)

\* the indices of the characters the selection takes into the output
SelectedChars(selection) ==
    { k \in 0..(Len(_text) - 1) :
        /\ selection.from <= k /\ k < selection.to
        /\ _blocks[BlockOf(k)].type # "Skip" }

\* where the selected character k stands in the output
OutputIndex(selection, k) ==
    Cardinality({ j \in SelectedChars(selection) : j < k })

\* the selected characters whose block carries the flag
Flagged(selection, flag) ==
    { k \in SelectedChars(selection) : flag \in _blocks[BlockOf(k)].flags }

\* the maximal stretches a..b of characters of the set
Stretches(chars) ==
    { r \in [ a : chars, b : chars ] :
        /\ r.a <= r.b
        /\ \A k \in (r.a)..(r.b) : k \in chars
        /\ (r.a - 1) \notin chars
        /\ (r.b + 1) \notin chars }

\* how many of the entities are the given one
CountEntity(entities, entity) ==
    Cardinality({ n \in 1..Len(entities) : entities[n] = entity })

\* C19: toTextWithEntities returns, for every flag and every maximal
\* stretch of selected text whose blocks carry the flag, one entity of the
\* flag's type that covers the stretch in the output, wherever the
\* selection starts and ends.
C19_EntityPerFlaggedStretch ==
    call.op = "toTextWithEntities" =>
        \A n \in 1..Len(Trackers) :
            \A r \in Stretches(Flagged(call.selection, Trackers[n])) :
                CountEntity(call.ret.entities,
                            [ type |-> Trackers[n],
                              offset |-> OutputIndex(call.selection, r.a),
                              length |-> r.b - r.a + 1 ]) = 1

\* The links of the text: the runs n..m of blocks between two changes of
\* the link index enumerateText sees.
LinkRuns ==
    { r \in [ n : 1..Len(_blocks), m : 1..Len(_blocks) ] :
        /\ r.n <= r.m
        /\ LinkIndexAt(r.n) # 0
        /\ \A k \in (r.n)..(r.m) : LinkIndexAt(k) = LinkIndexAt(r.n)
        /\ r.n > 1 => LinkIndexAt(r.n - 1) # LinkIndexAt(r.n)
        /\ LinkIndexAt(r.m + 1) # LinkIndexAt(r.n) }

\* the selected characters of a link
LinkChars(selection, r) ==
    { k \in SelectedChars(selection) :
        PositionAt(r.n) <= k /\ k < PositionAt(r.m + 1) }

\* the link lies in the selection from its first to its last character
FullyInside(selection, r) ==
    selection.from <= PositionAt(r.n) /\ PositionAt(r.m + 1) <= selection.to

\* the entity of a link that lies in the selection
LinkEntity(selection, r) ==
    [ type |-> _extended.links[LinkIndexAt(r.n)].type,
      offset |-> OutputIndex(selection, PositionAt(r.n)),
      length |-> PositionAt(r.m + 1) - PositionAt(r.n) ]

\* no link entity lies over a selected character of the link
NoLinkEntity(selection, r, entities) ==
    \A e \in 1..Len(entities) : \A k \in LinkChars(selection, r) :
        IsUrl(entities[e]) =>
            ~( entities[e].offset <= OutputIndex(selection, k)
               /\ OutputIndex(selection, k) < entities[e].offset + entities[e].length )

\* the selected characters of the link are in the output
LinkTextAppended(selection, r, text) ==
    \A k \in LinkChars(selection, r) :
        /\ OutputIndex(selection, k) < Len(text)
        /\ text[OutputIndex(selection, k) + 1] = _text[k + 1]

\* C11 as stated: a link that lies entirely in the selection yields one
\* link entity over exactly its text; a link cut by the selection yields no
\* link entity, and its selected text is in the output.
C11_LinkEntities ==
    call.op = "toTextWithEntities" =>
        \A r \in LinkRuns :
            IF FullyInside(call.selection, r)
            THEN /\ CountEntity(call.ret.entities,
                                LinkEntity(call.selection, r)) = 1
                 /\ LinkTextAppended(call.selection, r, call.ret.text)
            ELSE /\ NoLinkEntity(call.selection, r, call.ret.entities)
                 /\ LinkTextAppended(call.selection, r, call.ret.text)

\* the handler's data starts with "internal:"
InternalLink(r) ==
    LET handler == _extended.links[LinkIndexAt(r.n)]
    IN  handler.type = "CustomUrl" /\ handler.internal

\* C11: a link that lies entirely in the selection yields one link entity
\* over exactly its text unless its handler is a CustomUrl with internal
\* data, which yields none; a link cut by the selection yields no link
\* entity; the selected text of a link is in the output in every case.
C11_LinkEntitiesUnlessInternal ==
    call.op = "toTextWithEntities" =>
        \A r \in LinkRuns :
            /\ LinkTextAppended(call.selection, r, call.ret.text)
            /\ IF FullyInside(call.selection, r) /\ ~InternalLink(r)
               THEN CountEntity(call.ret.entities,
                                LinkEntity(call.selection, r)) = 1
               ELSE NoLinkEntity(call.selection, r, call.ret.entities)

\* a link entirely in the selection followed by a link the selection cuts
C11_Witness ==
    /\ call.op = "toTextWithEntities"
    /\ \E r1 \in LinkRuns, r2 \in LinkRuns :
          /\ r2.n = r1.m + 1
          /\ FullyInside(call.selection, r1) /\ ~InternalLink(r1)
          /\ ~FullyInside(call.selection, r2)
          /\ LinkChars(call.selection, r2) # {}
          /\ call.ret.entities = << LinkEntity(call.selection, r1) >>

-----------------------------------------------------------------------------
(* Properties of the adjusted range.                                        *)

\* the selection handed to the last adjustSelection, `to` clamped to the
\* text, was answered by the monospace entity around it
Snapped ==
    /\ call.selectType = "Paragraphs"
    /\ MonoSnap(call.selection.from,
                Min(call.selection.to, Len(_text))).returns

\* C21: for from < length and from <= to, adjustSelection in Words mode,
\* and in Paragraphs mode when it does not return a monospace entity,
\* returns (from', to') with from' <= from, min(to, length) <= to' and
\* from' <= to' <= length.
C21_OnlyExpands ==
    (call.op = "adjustSelection" /\ call.times = 1 /\ WasAdjusted
     /\ call.selectType \in {"Words", "Paragraphs"} /\ ~Snapped)
        => /\ call.ret.from <= call.selection.from
           /\ Min(call.selection.to, Len(_text)) <= call.ret.to
           /\ call.ret.from <= call.ret.to
           /\ call.ret.to <= Len(_text)


\* a word of block bi stored as sub-chunks, units s..e, whose first chunk
\* starts line k right after a wrap
ChunkedWordStartsLine(bi, s, e, k) ==
    /\ _blocks[bi].type = "Text"
    /\ s = WordStart(bi, s) /\ e = WordEnd(bi, s) /\ s < e
    /\ k >= 2 /\ call.lines[k - 1].cause = "wrap"
    /\ call.lines[k].units # <<>>
    /\ call.lines[k].units[1] = << bi, s >>

\* the line that holds chunk j of block bi starts with a chunk of the word
\* from s on, and the next chunk no longer fits beside those it holds
HoldsMaximalPrefix(bi, s, j) ==
    LET line  == call.lines[LineOf(<< bi, j >>)]
        first == line.units[1]
    IN  /\ first[1] = bi /\ first[2] >= s
        /\ OwnWidth(bi, first[2], j + 1) > EffWidth - line.pad

\* C22: with breakEverywhere = false, a word stored as sub-chunks that
\* starts a line after a wrap is laid out greedily: every line it occupies
\* but its last holds the longest run of its remaining chunks that fits.
C22_ChunkedWordGreedy ==
    (call.ran /\ call.done /\ ~call.breakEverywhere) =>
        \A bi \in 1..Len(_blocks) : \A k \in 1..Len(call.lines) :
            _blocks[bi].type = "Text" =>
                \A s \in 1..Len(Words(bi)) :
                    ChunkedWordStartsLine(bi, s, WordEnd(bi, s), k) =>
                        \A j \in s..(WordEnd(bi, s) - 1) :
                            LineOf(<< bi, j >>) # LineOf(<< bi, j + 1 >>)
                                => HoldsMaximalPrefix(bi, s, j)

====
